---- MODULE Spec2Model ----
(***************************************************************************)
(* Model of the computation engine of aumos-maturity-assessment:           *)
(*   - maturity scoring (adapters/scoring_engine.py, core/scoring.py),     *)
(*   - dimension-weight validation (core/services.py),                     *)
(*   - peer comparison and gap analysis (adapters/benchmark_comparator.py).*)
(*                                                                         *)
(* Numbers.  Scores and quantiles are fixed-point integers in thousandths  *)
(* of a score point (Pts(80) is the float 80.0), so that round(x, 2) is a  *)
(* real conversion (to a multiple of 10).  Weights are integers in         *)
(* ten-thousandths (Wt(25) is the float 0.25), so that round(x, 4) is a    *)
(* conversion to a whole number of units.  Results of a division that the  *)
(* code does not round are kept as exact fractions [num, den].             *)
(***************************************************************************)
EXTENDS Integers, Sequences, FiniteSets, TLC

VARIABLES
    \* -- maturity-level classifiers --------------------------------------
    overall_score,      \* the score handed to the two classifiers
    engine_level,       \* result of scoring_engine._score_to_maturity_level,
                        \* 0 while it has not been called (levels are 1..5)
    scorer_level,       \* result of AssessmentScorer.compute_maturity_level,
                        \* 0 while it has not been called
    \* -- self-service scorer (core/scoring.py) ----------------------------
    answers,            \* the AnswerRecords of a session: question_id -> 1..5
    scorer_result,      \* {} before score_assessment, then {its result dict}
    \* -- enterprise scoring engine (adapters/scoring_engine.py) -----------
    responses,          \* the response dicts handed to compute_scores
    dimension_weights,  \* the dimension weights handed to compute_scores
    engine_result,      \* {} before compute_scores, then {its result dict}
    \* -- assessment creation (core/services.py) --------------------------
    assessments,        \* the rows AssessmentRepository.create has stored
    published,          \* the events handed to EventPublisher.publish
    last_call,          \* the latest service call: its arguments and outcome
    \* -- peer group selection (adapters/benchmark_comparator.py) ---------
    available_benchmarks,  \* the benchmark records handed to select_peer_group
    peer_group,         \* {} before select_peer_group, then {its result dict}
    \* -- percentile interpolation (comparator and scorer) ----------------
    ranked_score,       \* the score to rank
    quantiles,          \* the p25, p50, p75 and p90 of the benchmark used
    comparator_percentile,  \* {} before _interpolate_percentile, then {its result}
    scorer_percentile,  \* {} before compute_peer_percentile, then {its result}
    \* -- gap analysis (adapters/benchmark_comparator.py) -----------------
    assessment_scores,  \* the dimension scores handed to analyze_gap_vs_best_in_class
    gap_benchmark,      \* the benchmark record handed to it
    gap_analysis,       \* {} before analyze_gap_vs_best_in_class, then {its result list}
    priorities,         \* {} before score_improvement_priorities, then {its result list}
    \* -- roadmap planning (adapters/roadmap_planner.py) ------------------
    plan_actions,       \* the actions handed to sequence_by_priority
    parallel_streams,   \* the parallel_streams argument of generate_timeline
    horizon_months,     \* the horizon_months argument of define_milestones
    sequenced,          \* {} before sequence_by_priority, then {its result dict}
    timeline,           \* {} before generate_timeline, then {its outcome}
    milestones,         \* {} before define_milestones, then {its result dict}
    \* -- roadmap templates and the detailed-roadmap pipeline -------------
    lookup_dimension,   \* the dimension handed to get_roadmap_items_for_dimension
    lookup_score,       \* the score handed to it
    roadmap_items,      \* {} before get_roadmap_items_for_dimension, then {its outcome}
    gap_argument,       \* the gap analysis handed to map_gaps_to_actions
    action_map,         \* {} before map_gaps_to_actions, then {its outcome}
    gap_feed,           \* how the gap entries reach generate_detailed_roadmap
    detailed_roadmap,   \* {} before generate_detailed_roadmap, then {its outcome}
    \* -- scoring an assessment (AssessmentService.score_assessment) ------
    assessment_row,     \* the Assessment row of one assessment
    stored_responses,   \* the AssessmentResponse rows of that assessment
    score_calls,        \* the score_assessment calls: call -> its position and locals
    engine_invocations, \* number of compute_scores calls made by score_assessment
    update_scores_calls,  \* number of update_scores calls made
    completed_events,   \* the maturity.assessment.completed events published
    \* -- self-service session (core/services/assessment_service.py) ------
    session_answers,    \* the answers stored for one session: question_id -> 1..5
    result_records,     \* the lm_assessment_results rows of that session
    complete_calls,     \* the complete_assessment calls: call -> its position and locals
    \* -- dependencies between actions (identify_dependencies) ----------
    dependency_actions, \* the actions handed to identify_dependencies
    dependency_result,  \* {} before identify_dependencies, then {its result dict}
    \* -- report generation (ReportService.generate_report) -------------
    reported_assessment,  \* the status of the assessment reported on
    report_rows,        \* the Report rows ReportRepository.create has stored
    report_calls        \* the generate_report calls: call -> its position and locals

levelVars == <<overall_score, engine_level, scorer_level>>
scorerVars == <<answers, scorer_result>>
engineVars == <<responses, dimension_weights, engine_result>>
serviceVars == <<assessments, published, last_call>>
peerVars == <<available_benchmarks, peer_group>>
percentileVars == <<ranked_score, quantiles, comparator_percentile, scorer_percentile>>
gapVars == <<assessment_scores, gap_benchmark, gap_analysis, priorities>>
planVars == <<plan_actions, parallel_streams, horizon_months, sequenced, timeline, milestones>>
lifecycleVars ==
    <<assessment_row, stored_responses, score_calls, engine_invocations,
      update_scores_calls, completed_events>>
sessionVars == <<session_answers, result_records, complete_calls>>
dependencyVars == <<dependency_actions, dependency_result>>
reportVars == <<reported_assessment, report_rows, report_calls>>
roadmapVars ==
    <<lookup_dimension, lookup_score, roadmap_items, gap_argument, action_map, gap_feed,
      detailed_roadmap>>
vars ==
    <<levelVars, scorerVars, engineVars, serviceVars, peerVars, percentileVars, gapVars,
      planVars,
      roadmapVars,
      lifecycleVars,
      sessionVars,
      dependencyVars,
      reportVars>>

(***************************************************************************)
(* Fixed-point helpers                                                     *)
(***************************************************************************)
\* x score points, in thousandths.
Pts(x) == x * 1000

\* x hundredths of a weight, in ten-thousandths.
Wt(x) == x * 100

Max(a, b) == IF a >= b THEN a ELSE b
Min(a, b) == IF a <= b THEN a ELSE b

\* Python's round() on the exact quotient n / d (n >= 0, d > 0): the nearest
\* integer, a tie going to the even neighbour.
RoundHalfEven(n, d) ==
    LET q == n \div d
        r == n % d
    IN  IF 2 * r < d THEN q
        ELSE IF 2 * r > d THEN q + 1
        ELSE IF q % 2 = 0 THEN q ELSE q + 1

\* round(n / d, 2) of a value n / d given in thousandths: a multiple of 10.
Round2(n, d) == 10 * RoundHalfEven(n, d * 10)

(***************************************************************************)
(* Maturity level classification                                           *)
(***************************************************************************)
\* Mutant of score_to_maturity_level: strict comparisons (bands exclusive at
\* their lower bound).
score_to_maturity_level_strict(score) ==
    IF score > Pts(80) THEN 5
    ELSE IF score > Pts(60) THEN 4
    ELSE IF score > Pts(40) THEN 3
    ELSE IF score > Pts(20) THEN 2
    ELSE 1

\* scoring_engine._score_to_maturity_level
score_to_maturity_level(score) ==
    IF score >= Pts(80) THEN 5
    ELSE IF score >= Pts(60) THEN 4
    ELSE IF score >= Pts(40) THEN 3
    ELSE IF score >= Pts(20) THEN 2
    ELSE 1

\* core/scoring._MATURITY_THRESHOLDS: (threshold, level), highest first.
MATURITY_THRESHOLDS ==
    << <<Pts(80), 5>>, <<Pts(60), 4>>, <<Pts(40), 3>>, <<Pts(20), 2>>, <<Pts(0), 1>> >>

\* The for-loop of compute_maturity_level from entry i on: the level of the
\* first threshold the score reaches, 1 when the list is exhausted.
RECURSIVE FirstThresholdFrom(_, _)
FirstThresholdFrom(score, i) ==
    IF i > Len(MATURITY_THRESHOLDS) THEN 1
    ELSE IF score >= MATURITY_THRESHOLDS[i][1] THEN MATURITY_THRESHOLDS[i][2]
    ELSE FirstThresholdFrom(score, i + 1)

\* AssessmentScorer.compute_maturity_level
compute_maturity_level(score) == FirstThresholdFrom(score, 1)

\* Granularity of the scores the classifiers are tried on: every multiple of
\* 1000 / ScoreSubdivisions thousandths in 0..100 points.
ScoreSubdivisions == 20

ClassifierScores ==
    { (k * 1000) \div ScoreSubdivisions : k \in 0 .. (100 * ScoreSubdivisions) }

\* The classifiers before any call, on a fixed score: the state of this
\* component in the specifications of the other components.
IdleLevel ==
    /\ overall_score = 0
    /\ engine_level = 0
    /\ scorer_level = 0

InitLevel ==
    /\ overall_score \in ClassifierScores
    /\ engine_level = 0
    /\ scorer_level = 0

\* A call of scoring_engine._score_to_maturity_level(overall_score).
ClassifyEngine ==
    /\ engine_level = 0
    /\ engine_level' = score_to_maturity_level(overall_score)
    /\ UNCHANGED <<overall_score, scorer_level>>

\* A call of AssessmentScorer.compute_maturity_level(overall_score).
ClassifyScorer ==
    /\ scorer_level = 0
    /\ scorer_level' = compute_maturity_level(overall_score)
    /\ UNCHANGED <<overall_score, engine_level>>

(***************************************************************************)
(* Self-service scorer: AssessmentScorer over the question bank            *)
(***************************************************************************)
\* core/questions.QUESTION_BANK (the question texts left out).
QUESTION_BANK ==
    <<
       [question_id |-> "DATA_01", dimension |-> "data_infrastructure", weight |-> Wt(14)],
       [question_id |-> "DATA_02", dimension |-> "data_infrastructure", weight |-> Wt(12)],
       [question_id |-> "DATA_03", dimension |-> "data_infrastructure", weight |-> Wt(12)],
       [question_id |-> "DATA_04", dimension |-> "data_infrastructure", weight |-> Wt(11)],
       [question_id |-> "DATA_05", dimension |-> "data_infrastructure", weight |-> Wt(11)],
       [question_id |-> "DATA_06", dimension |-> "data_infrastructure", weight |-> Wt(11)],
       [question_id |-> "DATA_07", dimension |-> "data_infrastructure", weight |-> Wt(10)],
       [question_id |-> "DATA_08", dimension |-> "data_infrastructure", weight |-> Wt(10)],
       [question_id |-> "DATA_09", dimension |-> "data_infrastructure", weight |-> Wt(9)],
       [question_id |-> "GOV_01", dimension |-> "governance", weight |-> Wt(16)],
       [question_id |-> "GOV_02", dimension |-> "governance", weight |-> Wt(14)],
       [question_id |-> "GOV_03", dimension |-> "governance", weight |-> Wt(14)],
       [question_id |-> "GOV_04", dimension |-> "governance", weight |-> Wt(13)],
       [question_id |-> "GOV_05", dimension |-> "governance", weight |-> Wt(13)],
       [question_id |-> "GOV_06", dimension |-> "governance", weight |-> Wt(11)],
       [question_id |-> "GOV_07", dimension |-> "governance", weight |-> Wt(10)],
       [question_id |-> "GOV_08", dimension |-> "governance", weight |-> Wt(9)],
       [question_id |-> "TAL_01", dimension |-> "talent_culture", weight |-> Wt(14)],
       [question_id |-> "TAL_02", dimension |-> "talent_culture", weight |-> Wt(13)],
       [question_id |-> "TAL_03", dimension |-> "talent_culture", weight |-> Wt(12)],
       [question_id |-> "TAL_04", dimension |-> "talent_culture", weight |-> Wt(12)],
       [question_id |-> "TAL_05", dimension |-> "talent_culture", weight |-> Wt(12)],
       [question_id |-> "TAL_06", dimension |-> "talent_culture", weight |-> Wt(11)],
       [question_id |-> "TAL_07", dimension |-> "talent_culture", weight |-> Wt(10)],
       [question_id |-> "TAL_08", dimension |-> "talent_culture", weight |-> Wt(8)],
       [question_id |-> "TAL_09", dimension |-> "talent_culture", weight |-> Wt(8)],
       [question_id |-> "TECH_01", dimension |-> "technology_stack", weight |-> Wt(16)],
       [question_id |-> "TECH_02", dimension |-> "technology_stack", weight |-> Wt(14)],
       [question_id |-> "TECH_03", dimension |-> "technology_stack", weight |-> Wt(14)],
       [question_id |-> "TECH_04", dimension |-> "technology_stack", weight |-> Wt(13)],
       [question_id |-> "TECH_05", dimension |-> "technology_stack", weight |-> Wt(12)],
       [question_id |-> "TECH_06", dimension |-> "technology_stack", weight |-> Wt(11)],
       [question_id |-> "TECH_07", dimension |-> "technology_stack", weight |-> Wt(10)],
       [question_id |-> "TECH_08", dimension |-> "technology_stack", weight |-> Wt(10)],
       [question_id |-> "SEC_01", dimension |-> "security_posture", weight |-> Wt(15)],
       [question_id |-> "SEC_02", dimension |-> "security_posture", weight |-> Wt(14)],
       [question_id |-> "SEC_03", dimension |-> "security_posture", weight |-> Wt(13)],
       [question_id |-> "SEC_04", dimension |-> "security_posture", weight |-> Wt(13)],
       [question_id |-> "SEC_05", dimension |-> "security_posture", weight |-> Wt(12)],
       [question_id |-> "SEC_06", dimension |-> "security_posture", weight |-> Wt(12)],
       [question_id |-> "SEC_07", dimension |-> "security_posture", weight |-> Wt(11)],
       [question_id |-> "SEC_08", dimension |-> "security_posture", weight |-> Wt(10)],
       [question_id |-> "STR_01", dimension |-> "strategic_alignment", weight |-> Wt(16)],
       [question_id |-> "STR_02", dimension |-> "strategic_alignment", weight |-> Wt(14)],
       [question_id |-> "STR_03", dimension |-> "strategic_alignment", weight |-> Wt(14)],
       [question_id |-> "STR_04", dimension |-> "strategic_alignment", weight |-> Wt(13)],
       [question_id |-> "STR_05", dimension |-> "strategic_alignment", weight |-> Wt(12)],
       [question_id |-> "STR_06", dimension |-> "strategic_alignment", weight |-> Wt(11)],
       [question_id |-> "STR_07", dimension |-> "strategic_alignment", weight |-> Wt(10)],
       [question_id |-> "STR_08", dimension |-> "strategic_alignment", weight |-> Wt(10)]
    >>

\* core/questions.ALL_DIMENSIONS
ALL_DIMENSIONS ==
    << "data_infrastructure", "governance", "talent_culture",
       "technology_stack", "security_posture", "strategic_alignment" >>

\* core/scoring.DIMENSION_WEIGHTS
DIMENSION_WEIGHTS ==
    [ data_infrastructure |-> Wt(25), governance |-> Wt(20),
      talent_culture |-> Wt(20), technology_stack |-> Wt(15),
      security_posture |-> Wt(10), strategic_alignment |-> Wt(10) ]

BankIndex == 1 .. Len(QUESTION_BANK)
BankIds == { QUESTION_BANK[i].question_id : i \in BankIndex }

\* core/questions.QUESTIONS_BY_ID
QUESTIONS_BY_ID ==
    [ q \in BankIds |->
        QUESTION_BANK[CHOOSE i \in BankIndex : QUESTION_BANK[i].question_id = q] ]

\* A question id that is not in the bank (QUESTIONS_BY_ID.get gives None).
UnknownQuestionId == "UNKNOWN_01"

\* sum(f[x] for x in S) over a finite set S.
RECURSIVE SumOver(_, _)
SumOver(S, f) ==
    IF S = {} THEN 0
    ELSE LET x == CHOOSE y \in S : TRUE
         IN  f[x] + SumOver(S \ {x}, f)

\* The (question, answer) pairs score_dimension keeps: the answered ids that
\* are in the bank and belong to the dimension.
DimensionAnswers(ans, dimension) ==
    { q \in DOMAIN ans :
        q \in BankIds /\ QUESTIONS_BY_ID[q].dimension = dimension }

\* Mutant of score_dimension: the Likert answer is normalised as a * 25
\* (the "- 1" forgotten).
score_dimension_zero_based(ans, dimension) ==
    LET kept == DimensionAnswers(ans, dimension)
        total_weight == SumOver(kept, [q \in kept |-> QUESTIONS_BY_ID[q].weight])
        weighted_sum ==
            SumOver(kept, [q \in kept |->
                ans[q] * Pts(25) * QUESTIONS_BY_ID[q].weight])
    IN  IF kept = {} THEN 0
        ELSE IF total_weight = 0 THEN 0
        ELSE Round2(weighted_sum, total_weight)

\* Mutant of score_dimension: the Likert answer is reverse-coded
\* ((5 - a) * 25 instead of (a - 1) * 25).
score_dimension_reversed(ans, dimension) ==
    LET kept == DimensionAnswers(ans, dimension)
        total_weight == SumOver(kept, [q \in kept |-> QUESTIONS_BY_ID[q].weight])
        weighted_sum ==
            SumOver(kept, [q \in kept |->
                (5 - ans[q]) * Pts(25) * QUESTIONS_BY_ID[q].weight])
    IN  IF kept = {} THEN 0
        ELSE IF total_weight = 0 THEN 0
        ELSE Round2(weighted_sum, total_weight)

\* AssessmentScorer.score_dimension: the weighted mean of the normalised
\* answers ((a - 1) * 25) of the dimension, rounded to 2 decimals; 0.0 with
\* no answers or zero total weight.
score_dimension(ans, dimension) ==
    LET kept == DimensionAnswers(ans, dimension)
        total_weight == SumOver(kept, [q \in kept |-> QUESTIONS_BY_ID[q].weight])
        weighted_sum ==
            SumOver(kept, [q \in kept |->
                (ans[q] - 1) * Pts(25) * QUESTIONS_BY_ID[q].weight])
    IN  IF kept = {} THEN 0
        ELSE IF total_weight = 0 THEN 0
        ELSE Round2(weighted_sum, total_weight)

\* AssessmentScorer.score_overall: sum(score * weight) over DIMENSION_WEIGHTS,
\* a dimension without a score counting 0.0, rounded to 2 decimals.
score_overall(dimension_scores) ==
    LET dims == DOMAIN DIMENSION_WEIGHTS
        overall ==
            SumOver(dims, [d \in dims |->
                (IF d \in DOMAIN dimension_scores THEN dimension_scores[d] ELSE 0)
                    * DIMENSION_WEIGHTS[d]])
    IN  Round2(overall, Wt(100))

\* dict.get(key, default) on a record.
Get(rec, key, default) == IF key \in DOMAIN rec THEN rec[key] ELSE default

\* round(x, 1) of a percentile x = n / d given in tenths of a percent, as
\* thousandths of a percent: a multiple of 100.
Round1(n, d) == 100 * RoundHalfEven(n, d)

\* AssessmentScorer.compute_peer_percentile: linear interpolation between
\* the p25, p50 and p75 of the first benchmark of the industry; 50.0 without
\* one.  The result is in thousandths of a percent.
compute_peer_percentile(score, industry, benchmarks) ==
    LET matching ==
            SelectSeq(benchmarks, LAMBDA b : Get(b, "industry_vertical", "") = industry)
    IN  IF matching = <<>> THEN Pts(50)
        ELSE
          LET benchmark == matching[1]
              p25 == Get(benchmark, "p25_score", Pts(0))
              p50 == Get(benchmark, "p50_score", Pts(50))
              p75 == Get(benchmark, "p75_score", Pts(75))
          IN  IF score <= p25 THEN
                  IF p25 = 0 THEN 0 ELSE Round1(score * 250, p25)
              ELSE IF score <= p50 THEN
                  IF p50 = p25 THEN Pts(25)
                  ELSE Pts(25) + Round1((score - p25) * 250, p50 - p25)
              ELSE IF score <= p75 THEN
                  IF p75 = p50 THEN Pts(50)
                  ELSE Pts(50) + Round1((score - p50) * 250, p75 - p50)
              ELSE IF p75 >= Pts(100) THEN Pts(100)
              ELSE Pts(75) + Round1(Min((score - p75) * 250,
                                        (Pts(100) - p75) * 250),
                                    Pts(100) - p75)

\* AssessmentScorer.score_assessment: the dimension scores, the overall score,
\* its maturity level and the peer percentile.  (The roadmap items it also
\* returns do not feed back into any score and are left out.)
score_assessment(ans, industry, benchmarks) ==
    LET dimension_scores ==
            [ d \in { ALL_DIMENSIONS[i] : i \in 1 .. Len(ALL_DIMENSIONS) } |->
                score_dimension(ans, d) ]
        overall == score_overall(dimension_scores)
    IN  [ dimension_scores |-> dimension_scores,
          overall_score |-> overall,
          maturity_level |-> compute_maturity_level(overall),
          peer_percentile |-> compute_peer_percentile(overall, industry, benchmarks) ]

\* Largest number of questions answered individually inside the dimension a
\* sheet focuses on.
MaxAnswered == 2

QuestionsOf(dimension) ==
    { q \in BankIds : QUESTIONS_BY_ID[q].dimension = dimension }

\* The answer sheets the scorer is tried on.  A uniform sheet answers every
\* question of the bank with the same value, or every question outside one
\* dimension.  A focused sheet answers at most MaxAnswered questions, all of
\* one dimension, with any values; it may also hold an answer to a question
\* that is not in the bank.
DimensionSet == { ALL_DIMENSIONS[i] : i \in 1 .. Len(ALL_DIMENSIONS) }

UniformSheets ==
    { [q \in BankIds |-> a] : a \in 1 .. 5 }
    \cup { [q \in BankIds \ QuestionsOf(d) |-> a] : a \in 1 .. 5, d \in DimensionSet }

FocusedSheet(S, v, stray) ==
    [q \in S \cup (IF stray THEN {UnknownQuestionId} ELSE {}) |->
        IF q \in S THEN v[q] ELSE 5]

IsFocusedSheet(sheet) ==
    \E d \in DimensionSet :
      \E S \in { T \in SUBSET QuestionsOf(d) : Cardinality(T) <= MaxAnswered } :
        \E v \in [S -> 1 .. 5], stray \in BOOLEAN :
            sheet = FocusedSheet(S, v, stray)

IdleScorer ==
    /\ answers = << >>
    /\ scorer_result = {}

InitScorer ==
    /\ \/ answers \in UniformSheets
       \/ IsFocusedSheet(answers)
    /\ scorer_result = {}

\* score_assessment(answers) with its default arguments (no industry, no
\* benchmarks), as the completion of a session calls it.
ScoreAssessment ==
    /\ scorer_result = {}
    /\ scorer_result' = { score_assessment(answers, "", << >>) }
    /\ UNCHANGED answers

(***************************************************************************)
(* Enterprise scoring engine: ScoringEngine.compute_scores                 *)
(***************************************************************************)
\* The dimensions compute_scores loops over (scoring_engine.py) and
\* benchmark_comparator.DIMENSIONS.
DIMENSIONS == << "data", "process", "people", "technology", "governance" >>

EngineDimensions == { DIMENSIONS[i] : i \in 1 .. Len(DIMENSIONS) }

\* The default weights of AssessmentService.create_assessment.
DEFAULT_DIMENSION_WEIGHTS ==
    [ data |-> Wt(25), process |-> Wt(20), people |-> Wt(20),
      technology |-> Wt(20), governance |-> Wt(15) ]

\* agentic_dimension_seeder.SIX_DIMENSION_WEIGHTS
SIX_DIMENSION_WEIGHTS ==
    [ data |-> Wt(22), process |-> Wt(18), people |-> Wt(18),
      technology |-> Wt(18), governance |-> Wt(14), agentic_ai |-> Wt(10) ]

\* sum(f(s[i]) for i in I) over a set I of positions of a sequence.
RECURSIVE SumAt(_, _)
SumAt(I, f) ==
    IF I = {} THEN 0
    ELSE LET i == CHOOSE j \in I : TRUE
         IN  f[i] + SumAt(I \ {i}, f)

\* The positions of the responses of a dimension.
DimResponses(resp, dimension) ==
    { i \in 1 .. Len(resp) : Get(resp[i], "dimension", "") = dimension }

\* r.get("weight", 1.0); response weights are in hundredths (the weighted
\* mean does not depend on their unit).
ResponseWeight(r) == Get(r, "weight", 100)

\* r.get("numeric_score") or 0.0
ResponseScore(r) == Get(r, "numeric_score", 0)

\* Mutant of engine_dimension_score: with zero total weight it falls back to
\* the plain mean of the scores instead of 0.0.
engine_dimension_score_plain_mean(resp, dimension) ==
    LET dim_responses == DimResponses(resp, dimension)
        total_weight ==
            SumAt(dim_responses, [i \in dim_responses |-> ResponseWeight(resp[i])])
        weighted_sum ==
            SumAt(dim_responses, [i \in dim_responses |->
                ResponseScore(resp[i]) * ResponseWeight(resp[i])])
        plain_sum ==
            SumAt(dim_responses, [i \in dim_responses |-> ResponseScore(resp[i])])
    IN  IF dim_responses = {} THEN 0
        ELSE IF total_weight = 0 THEN Round2(plain_sum, Cardinality(dim_responses))
        ELSE Round2(weighted_sum, total_weight)

\* The body of the per-dimension loop of compute_scores: 0.0 without
\* responses or with zero total weight, else the weighted mean rounded to 2
\* decimals.
engine_dimension_score(resp, dimension) ==
    LET dim_responses == DimResponses(resp, dimension)
        total_weight ==
            SumAt(dim_responses, [i \in dim_responses |-> ResponseWeight(resp[i])])
        weighted_sum ==
            SumAt(dim_responses, [i \in dim_responses |->
                ResponseScore(resp[i]) * ResponseWeight(resp[i])])
    IN  IF dim_responses = {} THEN 0
        ELSE IF total_weight = 0 THEN 0
        ELSE Round2(weighted_sum, total_weight)

\* ScoringEngine.compute_scores
compute_scores(resp, weights) ==
    LET dimension_scores ==
            [ d \in EngineDimensions |-> engine_dimension_score(resp, d) ]
        overall ==
            Round2(SumOver(EngineDimensions, [d \in EngineDimensions |->
                        dimension_scores[d] * Get(weights, d, 0)]),
                   Wt(100))
    IN  [ overall_score |-> overall,
          maturity_level |-> score_to_maturity_level(overall),
          dimension_scores |-> dimension_scores ]

\* Largest number of responses handed to compute_scores.
MaxResponses == 2

\* The dimensions a response may name: the five of the engine and one the
\* engine does not know.
ResponseDimensions == EngineDimensions \cup {"agentic_ai"}

\* The response dicts compute_scores is tried on: numeric_score None
\* (absent), 33.33 or 100.0; weight absent (1.0), 0.0 or 2.0.
ResponseDicts ==
    { [dimension |-> d] : d \in ResponseDimensions }
    \cup { [dimension |-> d, numeric_score |-> n] :
            d \in ResponseDimensions, n \in {33330, Pts(100)} }
    \cup { [dimension |-> d, weight |-> w] :
            d \in ResponseDimensions, w \in {0, 200} }
    \cup { [dimension |-> d, numeric_score |-> n, weight |-> w] :
            d \in ResponseDimensions, n \in {33330, Pts(100)}, w \in {0, 200} }

IdleEngine ==
    /\ responses = << >>
    /\ dimension_weights = DEFAULT_DIMENSION_WEIGHTS
    /\ engine_result = {}

\* One response of 100.0 in each of the five dimensions and in agentic_ai.
FullMarkResponses ==
    [ i \in 1 .. 6 |->
        [ dimension |-> (DIMENSIONS \o << "agentic_ai" >>)[i], numeric_score |-> Pts(100) ] ]

InitEngine ==
    /\ \/ \E n \in 0 .. MaxResponses : responses \in [1 .. n -> ResponseDicts]
       \/ responses = FullMarkResponses
    /\ dimension_weights \in {DEFAULT_DIMENSION_WEIGHTS, SIX_DIMENSION_WEIGHTS}
    /\ engine_result = {}

\* A call of ScoringEngine.compute_scores(responses, dimension_weights).
ComputeScores ==
    /\ engine_result = {}
    /\ engine_result' = { compute_scores(responses, dimension_weights) }
    /\ UNCHANGED <<responses, dimension_weights>>

(***************************************************************************)
(* Dimension weights: AssessmentService.create_assessment and              *)
(* DimensionConfigService.resolve_dimension_weights                        *)
(***************************************************************************)
\* core/services.VALID_INDUSTRIES
VALID_INDUSTRIES ==
    { "financial_services", "healthcare", "manufacturing", "retail",
      "technology", "government", "other" }

\* core/services.VALID_ORG_SIZES
VALID_ORG_SIZES == { "startup", "smb", "mid_market", "enterprise", "large_enterprise" }

\* sum(weights.values())
WeightSum(weights) == SumOver(DOMAIN weights, weights)

\* Mutant of WeightSumRejected: the absolute value is dropped, so a sum below
\* 1.0 is never rejected.
WeightSumRejectedAboveOnly(weights) ==
    LET diff == WeightSum(weights) - Wt(100)
    IN  IF diff > 10 THEN {TRUE} ELSE IF diff = 10 THEN {TRUE, FALSE} ELSE {FALSE}

\* abs(weight_sum - 1.0) > 0.001, the test both services reject a weight set
\* on (0.001 is 10 ten-thousandths): the values the test can take.  The sum
\* is a float, so a sum exactly 0.001 away from 1.0 lands on either side of
\* the comparison (0.999 is rejected, 1.001 is accepted).
WeightSumRejected(weights) ==
    LET diff == WeightSum(weights) - Wt(100)
        dist == IF diff >= 0 THEN diff ELSE 0 - diff
    IN  IF dist > 10 THEN {TRUE} ELSE IF dist = 10 THEN {TRUE, FALSE} ELSE {FALSE}

\* No weights given: None, or an empty dict (both are falsy).
NoWeights == << >>

\* AssessmentService.create_assessment: the outcome of the call and the
\* weights it stores.  "weights" is the dict after the default is applied.
CreateAssessment(industry, organization_size, weights_arg) ==
    LET weights == IF weights_arg = NoWeights THEN DEFAULT_DIMENSION_WEIGHTS
                   ELSE weights_arg
        call == [ op |-> "create_assessment", industry |-> industry,
                  organization_size |-> organization_size,
                  dimension_weights |-> weights ]
    IN  \E rejected \in WeightSumRejected(weights) :
        IF industry \notin VALID_INDUSTRIES
           \/ organization_size \notin VALID_ORG_SIZES
           \/ rejected
        THEN /\ last_call' = call @@ [outcome |-> "ConflictError"]
             /\ UNCHANGED <<assessments, published>>
        ELSE /\ assessments' =
                    Append(assessments,
                           [ industry |-> industry,
                             organization_size |-> organization_size,
                             dimension_weights |-> weights,
                             status |-> "in_progress" ])
             /\ published' =
                    Append(published,
                           [ event_type |-> "maturity.assessment.created",
                             assessment_id |-> Len(assessments) + 1 ])
             /\ last_call' = call @@ [outcome |-> "created"]

\* The default_weight of the dimension configs the service lists as active:
\* the seed data of mat_dimension_configs (agentic_dimension_seeder).
ACTIVE_DIMENSION_DEFAULTS ==
    [ data |-> Wt(25), process |-> Wt(20), people |-> Wt(20),
      technology |-> Wt(20), governance |-> Wt(15), agentic_ai |-> Wt(15),
      culture |-> Wt(13), strategy |-> Wt(12) ]

\* round(w / total, 4): the nearest ten-thousandth.  The code rounds the
\* float quotient, which at an exact tie lies on either side of it, so both
\* neighbours are possible there.
RoundedShares(w, total) ==
    LET n == w * Wt(100)
        q == n \div total
        r == n % total
    IN  IF 2 * r < total THEN {q}
        ELSE IF 2 * r > total THEN {q + 1}
        ELSE {q, q + 1}

\* The dicts the proportional rebalancing of resolve_dimension_weights can
\* return for the selected dimension configs.
RebalancedWeights(dims) ==
    LET total == SumOver(dims, [d \in dims |-> ACTIVE_DIMENSION_DEFAULTS[d]])
        tied == { d \in dims :
                    Cardinality(RoundedShares(ACTIVE_DIMENSION_DEFAULTS[d], total)) > 1 }
        Low(d) == (ACTIVE_DIMENSION_DEFAULTS[d] * Wt(100)) \div total
    IN  { [d \in dims |->
             IF d \in tied
             THEN Low(d) + (IF d \in up THEN 1 ELSE 0)
             ELSE CHOOSE q \in RoundedShares(ACTIVE_DIMENSION_DEFAULTS[d], total) : TRUE] :
          up \in SUBSET tied }

\* DimensionConfigService.resolve_dimension_weights.  include_given is
\* "include_dimensions is not None" and include the set of the ids listed
\* (the result does not depend on their order or repetition); custom is
\* NoWeights for None.
ResolveDimensionWeights(include_given, include, custom) ==
    LET call == [ op |-> "resolve_dimension_weights",
                  include_given |-> include_given,
                  include_dimensions |-> include,
                  dimension_weights |-> custom ]
        active == DOMAIN ACTIVE_DIMENSION_DEFAULTS
        dims == IF include_given THEN include ELSE active
    IN  /\ UNCHANGED <<assessments, published>>
        /\ IF custom # NoWeights
           THEN \E rejected \in WeightSumRejected(custom) :
                    IF rejected
                    THEN last_call' = call @@ [outcome |-> "ValueError"]
                    ELSE last_call' = call @@ [outcome |-> "returned", result |-> custom]
           ELSE IF ~(dims \subseteq active)
                THEN last_call' = call @@ [outcome |-> "NotFoundError"]
           ELSE IF SumOver(dims, [d \in dims |-> ACTIVE_DIMENSION_DEFAULTS[d]]) = 0
                THEN last_call' = call @@ [outcome |-> "ValueError"]
           ELSE \E w \in RebalancedWeights(dims) :
                    last_call' = call @@ [outcome |-> "returned", result |-> w]

\* Largest number of assessments created in a behaviour.
MaxAssessments == 1

\* The weight dicts the services are tried on: the defaults with the data and
\* governance weights moved around the tolerance (sums 0.9989 to 1.0012 and
\* 1.25), the six-dimension preset, and every weight 0.5 (sum 2.5).
WeightDicts ==
    { [DEFAULT_DIMENSION_WEIGHTS EXCEPT !.data = x, !.governance = y] :
        x \in {Wt(25), 2510, 2511, 2489, Wt(50)}, y \in {Wt(15), 1501} }
    \cup { SIX_DIMENSION_WEIGHTS, [d \in EngineDimensions |-> Wt(50)] }

\* The lists of dimension ids resolve_dimension_weights is tried on: any
\* ids of the active configs, and lists with an id that is not configured.
IncludeLists ==
    (SUBSET DOMAIN ACTIVE_DIMENSION_DEFAULTS) \cup { {"legacy"}, {"data", "legacy"} }

IdleService ==
    /\ assessments = << >>
    /\ published = << >>
    /\ last_call = [op |-> "none"]

\* A call of create_assessment with any arguments.
CallCreateAssessment ==
    /\ Len(assessments) < MaxAssessments
    /\ \E industry \in {"healthcare", "space_mining"},
          organization_size \in {"mid_market", "giant_corporation"},
          weights_arg \in WeightDicts \cup {NoWeights} :
            CreateAssessment(industry, organization_size, weights_arg)

\* A call of resolve_dimension_weights with any arguments.  The code returns
\* on custom_weights before it looks at include_dimensions, so the list is
\* varied only in the calls without custom weights.
CallResolveDimensionWeights ==
    \E include_given \in BOOLEAN,
       include \in IncludeLists,
       custom \in WeightDicts \cup {NoWeights} :
        /\ ~include_given => include = {}
        /\ custom # NoWeights => ~include_given
        /\ ResolveDimensionWeights(include_given, include, custom)

(***************************************************************************)
(* Peer group selection: BenchmarkComparator.select_peer_group             *)
(***************************************************************************)
\* BenchmarkComparator.__init__: peer_group_min_size defaults to 10.
peer_group_min_size == 10

\* b.get("sample_size", 0)
SampleSize(b) == Get(b, "sample_size", 0)

\* A list comprehension with a filter: the positions of the list that are
\* in the set kept, in list order, from position i on.
RECURSIVE FilterFrom(_, _, _)
FilterFrom(seq, kept, i) ==
    IF i > Len(seq) THEN << >>
    ELSE (IF i \in kept THEN <<i>> ELSE << >>) \o FilterFrom(seq, kept, i + 1)

\* max(matches, key=sample_size) over the positions idx of a list: the first
\* of the elements with the largest sample size.
RECURSIVE MaxBySampleSize(_, _, _)
MaxBySampleSize(seq, idx, best) ==
    IF idx = << >> THEN best
    ELSE MaxBySampleSize(seq, Tail(idx),
                         IF SampleSize(seq[Head(idx)]) > SampleSize(seq[best])
                         THEN Head(idx) ELSE best)

\* exact_matches and exact_matches[0].get("sample_size", 0) >= min size: the
\* test reads the sample size of the FIRST exact match.
ExactGroupUsable(benchmarks, exact_matches) ==
    /\ exact_matches # << >>
    /\ SampleSize(benchmarks[Head(exact_matches)]) >= peer_group_min_size

\* BenchmarkComparator.select_peer_group.  selected_index is the position of
\* the selected benchmark in the list (0 for None).
select_peer_group(industry, organization_size, benchmarks) ==
    LET IsExact(b) == /\ Get(b, "industry", "") = industry
                      /\ Get(b, "organization_size", "") = organization_size
        IsIndustry(b) == Get(b, "industry", "") = industry
        exact_matches ==
            FilterFrom(benchmarks, { i \in DOMAIN benchmarks : IsExact(benchmarks[i]) }, 1)
        industry_matches ==
            FilterFrom(benchmarks, { i \in DOMAIN benchmarks : IsIndustry(benchmarks[i]) }, 1)
        Pick(idx, quality) ==
            LET sel == MaxBySampleSize(benchmarks, Tail(idx), Head(idx))
            IN  [ selected_index |-> sel,
                  match_quality |-> quality,
                  sample_size |-> SampleSize(benchmarks[sel]) ]
    IN  IF ExactGroupUsable(benchmarks, exact_matches)
        THEN Pick(exact_matches, "exact")
        ELSE IF industry_matches # << >>
        THEN Pick(industry_matches, "industry_only")
        ELSE IF benchmarks # << >>
        THEN Pick(FilterFrom(benchmarks, DOMAIN benchmarks, 1), "global_fallback")
        ELSE [ selected_index |-> 0, match_quality |-> "none", sample_size |-> 0 ]

\* Largest number of benchmark records handed to select_peer_group.
MaxBenchmarks == 3

\* The organization the peer group is selected for.
PeerIndustry == "healthcare"
PeerOrganizationSize == "enterprise"

\* Benchmark records: of the organization's industry or another one, of its
\* size or another one, with a sample below, at and above the minimum.
BenchmarkRecords ==
    [ industry : {PeerIndustry, "retail"},
      organization_size : {PeerOrganizationSize, "smb"},
      sample_size : {5, 10, 50} ]

IdlePeer ==
    /\ available_benchmarks = << >>
    /\ peer_group = {}

InitPeer ==
    /\ \E n \in 0..MaxBenchmarks : available_benchmarks \in [1..n -> BenchmarkRecords]
    /\ peer_group = {}

SelectPeerGroup ==
    /\ peer_group = {}
    /\ peer_group' =
          {select_peer_group(PeerIndustry, PeerOrganizationSize, available_benchmarks)}
    /\ UNCHANGED available_benchmarks

(***************************************************************************)
(* Percentile interpolation: BenchmarkComparator._interpolate_percentile   *)
(* and AssessmentScorer.compute_peer_percentile                            *)
(***************************************************************************)
\* A percentile the comparator returns unrounded: num / den percent, den > 0.
Fraction(num, den) == [num |-> num, den |-> den]

\* benchmark.get(prefix + key, benchmark.get("overall_" + key, default))
BenchmarkValue(benchmark, dimension, key, default) ==
    Get(benchmark, dimension \o "_" \o key,
        Get(benchmark, "overall_" \o key, default))

\* Mutant of interpolate_percentile: the lowest segment divides by p25
\* without the test p25 > 0.
interpolate_percentile_unguarded(score, benchmark, dimension) ==
    LET p25 == BenchmarkValue(benchmark, dimension, "p25", Pts(25))
        p50 == BenchmarkValue(benchmark, dimension, "p50", Pts(50))
        p75 == BenchmarkValue(benchmark, dimension, "p75", Pts(60))
        p90 == BenchmarkValue(benchmark, dimension, "p90", Pts(75))
    IN  IF score <= p25 THEN Fraction(Max(0, 25 * score), p25)
        ELSE IF score <= p50
        THEN Fraction(25 * (p50 - p25) + 25 * (score - p25), p50 - p25)
        ELSE IF score <= p75
        THEN Fraction(50 * (p75 - p50) + 25 * (score - p50), p75 - p50)
        ELSE IF score <= p90
        THEN Fraction(75 * (p90 - p75) + 15 * (score - p75), p90 - p75)
        ELSE LET span == Max(Pts(100) - p90, Pts(1))
             IN  Fraction(90 * span + 10 * Min(score - p90, span), span)

\* Mutant of interpolate_percentile: the segment between p25 and p50 starts
\* at percentile 20.
interpolate_percentile_low_anchor(score, benchmark, dimension) ==
    LET p25 == BenchmarkValue(benchmark, dimension, "p25", Pts(25))
        p50 == BenchmarkValue(benchmark, dimension, "p50", Pts(50))
    IN  IF score <= p25
        THEN IF p25 > 0 THEN Fraction(Max(0, 25 * score), p25) ELSE Fraction(0, 1)
        ELSE IF p50 > p25
             THEN Fraction(20 * (p50 - p25) + 25 * (score - p25), p50 - p25)
             ELSE Fraction(20, 1)

\* BenchmarkComparator._interpolate_percentile: linear interpolation between
\* the p25, p50, p75 and p90 of the dimension.  Scores and quantiles are in
\* thousandths of a point; the result is the exact quotient.
interpolate_percentile(score, benchmark, dimension) ==
    LET p25 == BenchmarkValue(benchmark, dimension, "p25", Pts(25))
        p50 == BenchmarkValue(benchmark, dimension, "p50", Pts(50))
        p75 == BenchmarkValue(benchmark, dimension, "p75", Pts(60))
        p90 == BenchmarkValue(benchmark, dimension, "p90", Pts(75))
    IN  IF score <= p25
        THEN IF p25 > 0 THEN Fraction(Max(0, 25 * score), p25) ELSE Fraction(0, 1)
        ELSE IF score <= p50
        THEN IF p50 > p25
             THEN Fraction(25 * (p50 - p25) + 25 * (score - p25), p50 - p25)
             ELSE Fraction(25, 1)
        ELSE IF score <= p75
        THEN IF p75 > p50
             THEN Fraction(50 * (p75 - p50) + 25 * (score - p50), p75 - p50)
             ELSE Fraction(50, 1)
        ELSE IF score <= p90
        THEN IF p90 > p75
             THEN Fraction(75 * (p90 - p75) + 15 * (score - p75), p90 - p75)
             ELSE Fraction(75, 1)
        ELSE LET span == Max(Pts(100) - p90, Pts(1))
             IN  Fraction(90 * span + 10 * Min(score - p90, span), span)

\* Number of equal steps the 0..100 range of scores and quantiles is cut in.
GridDivisions == 5

\* The scores and quantiles tried, in thousandths of a point.
GridValues == { (Pts(100) * k) \div GridDivisions : k \in 0..GridDivisions }

\* The dimension whose quantiles the comparator reads.
RankedDimension == "data"

\* The benchmark record of the comparator for the quantiles q.
ComparatorBenchmark(q) ==
    [ data_p25 |-> q.p25, data_p50 |-> q.p50, data_p75 |-> q.p75, data_p90 |-> q.p90 ]

\* The industry the scorer ranks in.
RankedIndustry == "healthcare"

\* The benchmark list of the scorer for the quantiles q: a benchmark of
\* another industry, then the one of the industry.
ScorerBenchmarks(q) ==
    << [ industry_vertical |-> "retail", p25_score |-> Pts(10),
         p50_score |-> Pts(20), p75_score |-> Pts(30) ],
       [ industry_vertical |-> RankedIndustry, p25_score |-> q.p25,
         p50_score |-> q.p50, p75_score |-> q.p75 ] >>

IdlePercentile ==
    /\ ranked_score = 0
    /\ quantiles = [p25 |-> Pts(25), p50 |-> Pts(50), p75 |-> Pts(60), p90 |-> Pts(75)]
    /\ comparator_percentile = {}
    /\ scorer_percentile = {}

\* Any score against any four quantiles of the grid, ordered or not.
InitPercentile ==
    /\ ranked_score \in GridValues
    /\ quantiles \in [p25 : GridValues, p50 : GridValues, p75 : GridValues, p90 : GridValues]
    /\ comparator_percentile = {}
    /\ scorer_percentile = {}

InterpolatePercentile ==
    /\ comparator_percentile = {}
    /\ comparator_percentile' =
          {interpolate_percentile(ranked_score, ComparatorBenchmark(quantiles),
                                  RankedDimension)}
    /\ UNCHANGED <<ranked_score, quantiles, scorer_percentile>>

ComputePeerPercentile ==
    /\ scorer_percentile = {}
    /\ scorer_percentile' =
          {compute_peer_percentile(ranked_score, RankedIndustry, ScorerBenchmarks(quantiles))}
    /\ UNCHANGED <<ranked_score, quantiles, comparator_percentile>>

(***************************************************************************)
(* Gap analysis: BenchmarkComparator.analyze_gap_vs_best_in_class          *)
(***************************************************************************)
\* benchmark_comparator.MATURITY_LEVELS
MATURITY_LEVELS ==
    << <<Pts(80), "Optimizing">>, <<Pts(60), "Managed">>, <<Pts(40), "Defined">>,
       <<Pts(20), "Developing">>, <<Pts(0), "Initial">> >>

\* BenchmarkComparator._score_to_maturity_level: the label of the first
\* threshold the score reaches.
RECURSIVE FirstLabelFrom(_, _)
FirstLabelFrom(score, i) ==
    IF i > Len(MATURITY_LEVELS) THEN "Initial"
    ELSE IF score >= MATURITY_LEVELS[i][1] THEN MATURITY_LEVELS[i][2]
    ELSE FirstLabelFrom(score, i + 1)

score_to_maturity_label(score) == FirstLabelFrom(score, 1)

\* Mutant of gap_size_of: the difference without the floor at 0.
gap_size_signed(bic_score, score) == bic_score - score

\* gap_size = max(0.0, bic_score - score), in thousandths of a point.
gap_size_of(bic_score, score) == Max(0, bic_score - score)

\* Mutant of gap_severity: the tier bounds are exclusive.
gap_severity_exclusive(gap_size) ==
    IF gap_size > Pts(30) THEN "critical"
    ELSE IF gap_size > Pts(20) THEN "high"
    ELSE IF gap_size > Pts(10) THEN "medium"
    ELSE "low"

\* The severity tier of a gap.
gap_severity(gap_size) ==
    IF gap_size >= Pts(30) THEN "critical"
    ELSE IF gap_size >= Pts(20) THEN "high"
    ELSE IF gap_size >= Pts(10) THEN "medium"
    ELSE "low"

\* The gap entry of one dimension.  The severity is taken from the gap as
\* computed; the entry stores score, best-in-class score and gap rounded to
\* 2 decimals.
gap_entry(dimension, scores, benchmark) ==
    LET score == Get(scores, dimension, Pts(0))
        bic_score == Get(benchmark, dimension \o "_p90",
                         Get(benchmark, "overall_p90", Pts(80)))
        gap_size == gap_size_of(bic_score, score)
    IN  [ dimension |-> dimension,
          current_score |-> Round2(score, 1),
          best_in_class_score |-> Round2(bic_score, 1),
          gap_size |-> Round2(gap_size, 1),
          gap_percent |-> IF bic_score > 0 THEN Round1(gap_size * 1000, bic_score) ELSE 0,
          severity |-> gap_severity(gap_size),
          current_maturity_level |-> score_to_maturity_label(score),
          target_maturity_level |-> score_to_maturity_label(bic_score) ]

\* list.sort(key=gap_size, reverse=True): a stable sort, so entries of equal
\* gap keep their order.  InsertGap puts an entry behind every entry whose
\* gap is at least its own.
RECURSIVE InsertGap(_, _)
InsertGap(sorted, g) ==
    IF sorted = << >> THEN <<g>>
    ELSE IF Head(sorted).gap_size >= g.gap_size
         THEN <<Head(sorted)>> \o InsertGap(Tail(sorted), g)
         ELSE <<g>> \o sorted

RECURSIVE SortGaps(_, _)
SortGaps(gaps, sorted) ==
    IF gaps = << >> THEN sorted
    ELSE SortGaps(Tail(gaps), InsertGap(sorted, Head(gaps)))

\* BenchmarkComparator.analyze_gap_vs_best_in_class
analyze_gap_vs_best_in_class(scores, benchmark) ==
    SortGaps([i \in 1..Len(DIMENSIONS) |-> gap_entry(DIMENSIONS[i], scores, benchmark)],
             << >>)

\* The dimension scores tried: a dimension is missing or has one of these
\* scores (two decimals, as the scoring engine produces them).
GapScores == { Pts(50), 59990, Pts(90) }

GapScoreDicts ==
    UNION { [S -> GapScores] : S \in SUBSET EngineDimensions }

\* The benchmark records tried: the p90 of data is missing, 80.0, 79.996 (a
\* value between two hundredths, as interpolated quantiles are) or 0.0; the
\* p90 of process is missing or 80.0; overall_p90 is missing, 70.0 or 95.0.
GapBenchmarks ==
    { [k \in K |-> IF k = "data_p90" THEN d
                    ELSE IF k = "process_p90" THEN Pts(80) ELSE o] :
        K \in SUBSET {"data_p90", "process_p90", "overall_p90"},
        d \in {Pts(80), 79996, Pts(0)},
        o \in {Pts(70), Pts(95)} }

IdleGap ==
    /\ assessment_scores = << >>
    /\ gap_benchmark = << >>
    /\ gap_analysis = {}
    /\ priorities = {}

InitGap ==
    /\ assessment_scores \in GapScoreDicts
    /\ gap_benchmark \in GapBenchmarks
    /\ gap_analysis = {}
    /\ priorities = {}

AnalyzeGap ==
    /\ gap_analysis = {}
    /\ gap_analysis' = {analyze_gap_vs_best_in_class(assessment_scores, gap_benchmark)}
    /\ UNCHANGED <<assessment_scores, gap_benchmark, priorities>>

\* score_improvement_priorities.difficulty_weights, in tenths.
difficulty_weights ==
    [ data |-> 6, process |-> 5, people |-> 8, technology |-> 5, governance |-> 7 ]

\* round(x, 4) of x = n / d given in ten-thousandths: the nearest whole one.
Round4(n, d) == RoundHalfEven(n, d)

\* Mutant of priority_score_of: the effort is not floored at 0.1, and a
\* dimension without effort gets priority 0.
priority_score_unfloored(gap_size, effort) ==
    IF effort = 0 THEN 0
    ELSE Round4(Min(gap_size \div 10, 4000) * 250000, effort)

\* priority_score = round(impact_score / max(effort_score, 0.1), 4), in
\* ten-thousandths.  gap_size is in thousandths of a point and a multiple
\* of 0.01; impact is min(1, gap / 40); effort is in hundred-thousandths.
priority_score_of(gap_size, effort) ==
    Round4(Min(gap_size \div 10, 4000) * 250000, Max(effort, 10000))

\* The priority entry of one gap entry.  Scores carry two decimals, so the
\* effort difficulty * (1 - min(1, score / 100)) is a whole number of
\* hundred-thousandths.
priority_entry(gap, scores) ==
    LET dimension == gap.dimension
        gap_size == gap.gap_size
        difficulty == Get(difficulty_weights, dimension, 6)
        current_score == Get(scores, dimension, Pts(0))
        effort == difficulty * (10000 - Min(10000, current_score \div 10))
    IN  [ dimension |-> dimension,
          gap_size |-> gap_size,
          severity |-> gap.severity,
          impact_score |-> Round4(Min(gap_size \div 10, 4000) * 10, 4),
          effort_score |-> Round4(effort, 10),
          priority_score |-> priority_score_of(gap_size, effort),
          is_quick_win |-> /\ gap_size <= Pts(15)
                           /\ effort <= 40000
                           /\ gap.severity \in {"medium", "low"} ]

\* priorities.sort(key=priority_score, reverse=True): stable, as SortGaps.
RECURSIVE InsertPriority(_, _)
InsertPriority(sorted, p) ==
    IF sorted = << >> THEN <<p>>
    ELSE IF Head(sorted).priority_score >= p.priority_score
         THEN <<Head(sorted)>> \o InsertPriority(Tail(sorted), p)
         ELSE <<p>> \o sorted

RECURSIVE SortPriorities(_, _)
SortPriorities(unsorted, sorted) ==
    IF unsorted = << >> THEN sorted
    ELSE SortPriorities(Tail(unsorted), InsertPriority(sorted, Head(unsorted)))

\* BenchmarkComparator.score_improvement_priorities: the entries sorted,
\* then priority_rank assigned by position.
score_improvement_priorities(gaps, scores) ==
    LET sorted == SortPriorities([i \in DOMAIN gaps |-> priority_entry(gaps[i], scores)],
                                 << >>)
    IN  [k \in DOMAIN sorted |-> sorted[k] @@ [priority_rank |-> k]]

\* score_improvement_priorities called on a gap analysis and the scores it
\* was computed from.
ScorePriorities ==
    /\ priorities = {}
    /\ \E gaps \in gap_analysis :
          priorities' = {score_improvement_priorities(gaps, assessment_scores)}
    /\ UNCHANGED <<assessment_scores, gap_benchmark, gap_analysis>>

(***************************************************************************)
(* Roadmap planning: RoadmapPlanner.sequence_by_priority,                  *)
(* generate_timeline and define_milestones                                 *)
(***************************************************************************)
\* Mutant of DIMENSION_DEPENDENCIES: data in turn requires governance.
DIMENSION_DEPENDENCIES_Cyclic ==
    << <<"process", <<"data">> >>, <<"technology", <<"data">> >>,
       <<"governance", <<"process">> >>, <<"people", << >> >>,
       <<"data", <<"governance">> >> >>

\* roadmap_planner.DIMENSION_DEPENDENCIES, in the order of the dict.
DIMENSION_DEPENDENCIES ==
    << <<"process", <<"data">> >>, <<"technology", <<"data">> >>,
       <<"governance", <<"process">> >>, <<"people", << >> >>, <<"data", << >> >> >>

\* DIMENSION_DEPENDENCIES.get(dimension, [])
PrereqsOf(dimension) ==
    LET hits == { i \in DOMAIN DIMENSION_DEPENDENCIES :
                    DIMENSION_DEPENDENCIES[i][1] = dimension }
    IN  IF hits = {} THEN << >>
        ELSE DIMENSION_DEPENDENCIES[CHOOSE i \in hits : TRUE][2]

\* roadmap_planner.PHASE_ORDER
PHASE_ORDER == << "quick_wins", "foundation", "scale", "optimize" >>

\* PHASE_ORDER.index(phase) if phase in PHASE_ORDER else 2  (0-based).
PhaseRank(phase) ==
    LET hits == { i \in DOMAIN PHASE_ORDER : PHASE_ORDER[i] = phase }
    IN  IF hits = {} THEN 2 ELSE (CHOOSE i \in hits : TRUE) - 1

\* Mutant of SortKeyLeq: the key holds impact_score instead of -impact_score.
SortKeyLeqImpactAscending(a, b) ==
    \/ PhaseRank(a.phase) < PhaseRank(b.phase)
    \/ /\ PhaseRank(a.phase) = PhaseRank(b.phase)
       /\ \/ a.impact_score < b.impact_score
          \/ /\ a.impact_score = b.impact_score
             /\ a.effort_weeks <= b.effort_weeks

\* sort_key(a) <= sort_key(b) for the key (phase_rank, -impact_score,
\* effort_weeks), compared as Python compares tuples.
SortKeyLeq(a, b) ==
    \/ PhaseRank(a.phase) < PhaseRank(b.phase)
    \/ /\ PhaseRank(a.phase) = PhaseRank(b.phase)
       /\ \/ a.impact_score > b.impact_score
          \/ /\ a.impact_score = b.impact_score
             /\ a.effort_weeks <= b.effort_weeks

\* sorted(actions, key=sort_key): stable, ascending.
RECURSIVE InsertAction(_, _)
InsertAction(sorted, a) ==
    IF sorted = << >> THEN <<a>>
    ELSE IF SortKeyLeq(Head(sorted), a)
         THEN <<Head(sorted)>> \o InsertAction(Tail(sorted), a)
         ELSE <<a>> \o sorted

RECURSIVE SortActions(_, _)
SortActions(unsorted, sorted) ==
    IF unsorted = << >> THEN sorted
    ELSE SortActions(Tail(unsorted), InsertAction(sorted, Head(unsorted)))

\* Mutant of FirstIndex: the position of the last action of the dimension.
FirstIndexLast(actions, dimension) ==
    LET hits == { i \in DOMAIN actions : actions[i].dimension = dimension }
    IN  IF hits = {} THEN 0 ELSE CHOOSE i \in hits : \A j \in hits : i >= j

\* first_index of _detect_dependency_violations: the position of the first
\* action of a dimension, 0 when it has none (None in the code).
FirstIndex(actions, dimension) ==
    LET hits == { i \in DOMAIN actions : actions[i].dimension = dimension }
    IN  IF hits = {} THEN 0 ELSE CHOOSE i \in hits : \A j \in hits : i <= j

\* _detect_dependency_violations: a warning for every (dimension,
\* prerequisite) pair whose dimension starts before the prerequisite does.
detect_dependency_violations(actions) ==
    UNION { { [ warning_type |-> "dependency_violation",
                dimension |-> DIMENSION_DEPENDENCIES[i][1],
                prerequisite_dimension |-> DIMENSION_DEPENDENCIES[i][2][j] ] :
              j \in { k \in DOMAIN DIMENSION_DEPENDENCIES[i][2] :
                        LET dim_first == FirstIndex(actions, DIMENSION_DEPENDENCIES[i][1])
                            prereq_first ==
                                FirstIndex(actions, DIMENSION_DEPENDENCIES[i][2][k])
                        IN  dim_first # 0 /\ prereq_first # 0 /\ dim_first < prereq_first } } :
            i \in DOMAIN DIMENSION_DEPENDENCIES }

\* RoadmapPlanner.__init__: the quick-win thresholds (impact in tenths).
quick_win_effort_threshold_weeks == 6
quick_win_impact_threshold == 65

\* RoadmapPlanner.sequence_by_priority
sequence_by_priority(actions) ==
    LET sorted == SortActions(actions, << >>)
        IsQuickWin(a) ==
            \/ /\ a.effort_weeks <= quick_win_effort_threshold_weeks
               /\ a.impact_score >= quick_win_impact_threshold
            \/ a.phase = "quick_wins"
    IN  [ sequenced_actions |-> sorted,
          quick_wins |-> SelectSeq(sorted, IsQuickWin),
          strategic_initiatives |->
              SelectSeq(sorted, LAMBDA a : ~IsQuickWin(a) /\ a.phase \in {"scale", "optimize"}),
          dependency_warnings |-> detect_dependency_violations(sorted) ]

\* Weeks are kept in hundredths; round(x, 1) is the nearest tenth.
Weeks(n) == n * 100
RoundWeek(x) == 10 * RoundHalfEven(x, 10)

\* Mutant of BestStream: on a tie the last stream is taken.
BestStreamLast(stream_end_weeks, earliest_start_week) ==
    CHOOSE k \in DOMAIN stream_end_weeks :
        \A j \in DOMAIN stream_end_weeks :
            \/ Max(stream_end_weeks[k], earliest_start_week)
                 < Max(stream_end_weeks[j], earliest_start_week)
            \/ /\ Max(stream_end_weeks[k], earliest_start_week)
                    = Max(stream_end_weeks[j], earliest_start_week)
               /\ k >= j

\* The stream generate_timeline picks: the first one with the smallest
\* max(stream_end, earliest_start_week).
BestStream(stream_end_weeks, earliest_start_week) ==
    CHOOSE k \in DOMAIN stream_end_weeks :
        \A j \in DOMAIN stream_end_weeks :
            \/ Max(stream_end_weeks[k], earliest_start_week)
                 < Max(stream_end_weeks[j], earliest_start_week)
            \/ /\ Max(stream_end_weeks[k], earliest_start_week)
                    = Max(stream_end_weeks[j], earliest_start_week)
               /\ k <= j

\* Mutant of EarliestStart: prerequisites are not waited for.
EarliestStartImmediate(prereqs, completion) == 0

\* max over the prerequisites of dimension_completion_weeks.get(prereq, 0.0),
\* starting from start_week = 0.
RECURSIVE EarliestStart(_, _)
EarliestStart(prereqs, completion) ==
    IF prereqs = << >> THEN 0
    ELSE Max(Get(completion, Head(prereqs), 0), EarliestStart(Tail(prereqs), completion))

\* Mutant of ScheduleFrom: the end week of the chosen stream is not recorded.
RECURSIVE ScheduleFromStaleCursor(_, _, _, _)
ScheduleFromStaleCursor(actions, stream_end_weeks, completion, entries) ==
    IF actions = << >> THEN entries
    ELSE
      LET action == Head(actions)
          earliest_start_week == EarliestStart(PrereqsOf(action.dimension), completion)
          best_stream == BestStream(stream_end_weeks, earliest_start_week)
          action_start_week == Max(stream_end_weeks[best_stream], earliest_start_week)
          action_end_week == action_start_week + Weeks(action.effort_weeks)
      IN  ScheduleFromStaleCursor(
              Tail(actions), stream_end_weeks,
              [d \in DOMAIN completion \cup {action.dimension} |->
                  IF d = action.dimension
                  THEN Max(Get(completion, action.dimension, 0), action_end_week)
                  ELSE completion[d]],
              Append(entries, [ action_id |-> action.id,
                                dimension |-> action.dimension,
                                phase |-> action.phase,
                                stream |-> best_stream,
                                start_week |-> RoundWeek(action_start_week),
                                end_week |-> RoundWeek(action_end_week),
                                effort_weeks |-> Weeks(action.effort_weeks) ]))

\* The loop of generate_timeline over the actions left, with the stream ends,
\* the completion week of every dimension and the entries made so far.
RECURSIVE ScheduleFrom(_, _, _, _)
ScheduleFrom(actions, stream_end_weeks, completion, entries) ==
    IF actions = << >> THEN entries
    ELSE
      LET action == Head(actions)
          dimension == action.dimension
          effort_weeks == Weeks(action.effort_weeks)
          earliest_start_week == EarliestStart(PrereqsOf(dimension), completion)
          best_stream == BestStream(stream_end_weeks, earliest_start_week)
          action_start_week == Max(stream_end_weeks[best_stream], earliest_start_week)
          action_end_week == action_start_week + effort_weeks
          entry == [ action_id |-> action.id,
                     dimension |-> dimension,
                     phase |-> action.phase,
                     stream |-> best_stream,
                     start_week |-> RoundWeek(action_start_week),
                     end_week |-> RoundWeek(action_end_week),
                     effort_weeks |-> effort_weeks ]
      IN  ScheduleFrom(Tail(actions),
                       [stream_end_weeks EXCEPT ![best_stream] = action_end_week],
                       [d \in DOMAIN completion \cup {dimension} |->
                           IF d = dimension
                           THEN Max(Get(completion, dimension, 0), action_end_week)
                           ELSE completion[d]],
                       Append(entries, entry))

\* RoadmapPlanner.generate_timeline.  [0.0] * parallel_streams is the empty
\* list for parallel_streams <= 0; the first action then finds no stream and
\* the assignment stream_end_weeks[0] = ... raises IndexError.  (The calendar
\* dates of an entry are its week offsets added to the start date and are
\* left out.)
generate_timeline(sequenced_actions, streams) ==
    IF streams <= 0 /\ sequenced_actions # << >>
    THEN [ outcome |-> "IndexError" ]
    ELSE LET entries == ScheduleFrom(sequenced_actions, [k \in 1..streams |-> 0],
                                     << >>, << >>)
         IN  [ outcome |-> "returned", timeline_entries |-> entries ]

\* roadmap_planner._MILESTONE_CADENCE_WEEKS
MILESTONE_CADENCE_WEEKS == 8

\* total_weeks = horizon_months * 4.33, in hundredths of a week.
TotalWeeks(months) == months * 433

\* Mutant of MilestonesFrom: the cursor also stops at every half interval.
RECURSIVE MilestonesAtHalfCadence(_, _, _, _)
MilestonesAtHalfCadence(entries, months, week_cursor, made) ==
    IF Weeks(week_cursor) > TotalWeeks(months) + Weeks(MILESTONE_CADENCE_WEEKS) THEN made
    ELSE MilestonesAtHalfCadence(
             entries, months, week_cursor + MILESTONE_CADENCE_WEEKS \div 2,
             IF Weeks(week_cursor) <= TotalWeeks(months)
             THEN Append(made, [ milestone_number |-> Len(made) + 1, week |-> week_cursor,
                                 actions_completed |-> << >>,
                                 cumulative_actions_completed |-> 0 ])
             ELSE made)

\* The while loop of define_milestones from week_cursor on: a checkpoint at
\* every cursor up to total_weeks, and up to total_weeks + 8 when actions
\* complete in the interval before it.
RECURSIVE MilestonesFrom(_, _, _, _)
MilestonesFrom(entries, months, week_cursor, made) ==
    IF Weeks(week_cursor) > TotalWeeks(months) + Weeks(MILESTONE_CADENCE_WEEKS) THEN made
    ELSE
      LET actions_completing ==
              SelectSeq(entries,
                        LAMBDA e : /\ Weeks(week_cursor - MILESTONE_CADENCE_WEEKS) <= e.end_week
                                   /\ e.end_week < Weeks(week_cursor))
      IN  MilestonesFrom(
              entries, months, week_cursor + MILESTONE_CADENCE_WEEKS,
              IF actions_completing # << >> \/ Weeks(week_cursor) <= TotalWeeks(months)
              THEN Append(made,
                          [ milestone_number |-> Len(made) + 1,
                            week |-> week_cursor,
                            actions_completed |->
                                [k \in DOMAIN actions_completing |->
                                    actions_completing[k].action_id],
                            cumulative_actions_completed |->
                                Cardinality({ k \in DOMAIN entries :
                                                entries[k].end_week <= Weeks(week_cursor) }) ])
              ELSE made)

\* The phase completion list of define_milestones.
PhaseCompletions(entries) ==
    SelectSeq([i \in DOMAIN PHASE_ORDER |->
                 LET of_phase == { k \in DOMAIN entries : entries[k].phase = PHASE_ORDER[i] }
                 IN  [ phase |-> PHASE_ORDER[i],
                       action_count |-> Cardinality(of_phase),
                       completion_week |->
                           IF of_phase = {} THEN 0
                           ELSE RoundWeek(entries[CHOOSE k \in of_phase :
                                    \A j \in of_phase :
                                        entries[j].end_week <= entries[k].end_week].end_week) ]],
              LAMBDA c : c.action_count > 0)

\* RoadmapPlanner.define_milestones
define_milestones(timeline_entries, months) ==
    LET made == MilestonesFrom(timeline_entries, months, MILESTONE_CADENCE_WEEKS, << >>)
    IN  [ milestones |-> made,
          phase_completions |-> PhaseCompletions(timeline_entries),
          total_milestone_count |-> Len(made) ]

\* Largest number of actions handed to the planner.
MaxActions == 3

\* The action templates tried, taken from the built-in action library: for
\* data, process, governance and people the first quick win and the first
\* foundation action (impact in tenths).
ActionTemplates ==
    { [dimension |-> "data", effort_weeks |-> 3, impact_score |-> 75, phase |-> "quick_wins"],
      [dimension |-> "data", effort_weeks |-> 8, impact_score |-> 80, phase |-> "foundation"],
      [dimension |-> "process", effort_weeks |-> 3, impact_score |-> 70, phase |-> "quick_wins"],
      [dimension |-> "process", effort_weeks |-> 10, impact_score |-> 90, phase |-> "foundation"],
      [dimension |-> "governance", effort_weeks |-> 4, impact_score |-> 80, phase |-> "quick_wins"],
      [dimension |-> "governance", effort_weeks |-> 8, impact_score |-> 85, phase |-> "foundation"],
      [dimension |-> "people", effort_weeks |-> 4, impact_score |-> 75, phase |-> "quick_wins"],
      [dimension |-> "people", effort_weeks |-> 12, impact_score |-> 80, phase |-> "scale"] }

\* The action lists tried: any templates in any order, numbered by position.
ActionLists ==
    UNION { { [i \in 1..n |-> pick[i] @@ [id |-> i]] : pick \in [1..n -> ActionTemplates] } :
            n \in 0..MaxActions }

IdlePlan ==
    /\ plan_actions = << >>
    /\ parallel_streams = 2
    /\ horizon_months = 12
    /\ sequenced = {}
    /\ timeline = {}
    /\ milestones = {}

InitPlan ==
    /\ plan_actions \in ActionLists
    /\ parallel_streams \in {0, 1, 2}
    /\ horizon_months \in {0, 1, 3, 12}
    /\ sequenced = {}
    /\ timeline = {}
    /\ milestones = {}

SequenceByPriority ==
    /\ sequenced = {}
    /\ sequenced' = {sequence_by_priority(plan_actions)}
    /\ UNCHANGED <<plan_actions, parallel_streams, horizon_months, timeline, milestones>>

\* generate_timeline called on the sequenced actions.
GenerateTimeline ==
    /\ timeline = {}
    /\ \E q \in sequenced :
          timeline' = {generate_timeline(q.sequenced_actions, parallel_streams)}
    /\ UNCHANGED <<plan_actions, parallel_streams, horizon_months, sequenced, milestones>>

\* define_milestones called on the entries of a timeline that was returned.
DefineMilestones ==
    /\ milestones = {}
    /\ \E t \in timeline :
          /\ t.outcome = "returned"
          /\ milestones' = {define_milestones(t.timeline_entries, horizon_months)}
    /\ UNCHANGED <<plan_actions, parallel_streams, horizon_months, sequenced, timeline>>

(***************************************************************************)
(* Roadmap templates and the detailed-roadmap pipeline                     *)
(* (core/roadmap_config.py, adapters/roadmap_planner.py, core/services.py) *)
(***************************************************************************)

\* roadmap_config.ROADMAP_MAPPINGS: dimension -> score band -> module ids.
ROADMAP_MAPPINGS ==
    [ data_infrastructure |->
        [ low |-> <<"aumos-data-pipeline", "aumos-data-layer">>,
          medium |-> <<"aumos-context-graph", "aumos-fidelity-validator">>,
          high |-> <<"aumos-federated-learning", "aumos-privacy-engine">> ],
      governance |->
        [ low |-> <<"aumos-governance-engine", "aumos-maturity-assessment">>,
          medium |-> <<"aumos-ai-bom", "aumos-approval-workflow">>,
          high |-> <<"aumos-zero-knowledge-compliance", "aumos-stakeholder-consensus">> ],
      talent_culture |->
        [ low |-> <<"aumos-change-management", "aumos-human-ai-collab">>,
          medium |-> <<"aumos-critical-thinking", "aumos-testing-harness">>,
          high |-> <<"aumos-agent-framework", "aumos-llm-serving">> ],
      technology_stack |->
        [ low |-> <<"aumos-platform-core", "aumos-composable-installer">>,
          medium |-> <<"aumos-mlops-lifecycle", "aumos-model-registry">>,
          high |-> <<"aumos-llm-serving", "aumos-context-graph">> ],
      security_posture |->
        [ low |-> <<"aumos-security-runtime", "aumos-auth-gateway">>,
          medium |-> <<"aumos-adversarial-immunity", "aumos-hallucination-shield">>,
          high |-> <<"aumos-cryptographic-inference-escrow", "aumos-secrets-vault">> ],
      strategic_alignment |->
        [ low |-> <<"aumos-maturity-assessment", "aumos-shadow-ai-toolkit">>,
          medium |-> <<"aumos-vendor-intelligence", "aumos-ai-finops">>,
          high |-> <<"aumos-b2b-agent-commerce", "aumos-marketplace">> ] ]

\* roadmap_config.get_score_band
get_score_band(score) ==
    IF score < Pts(40) THEN "low"
    ELSE IF score < Pts(70) THEN "medium"
    ELSE "high"

\* roadmap_config.get_roadmap_items_for_dimension: ValueError for a
\* dimension that is not a key of ROADMAP_MAPPINGS, else one item per module
\* of the score band.
get_roadmap_items_for_dimension(dimension, score) ==
    IF dimension \notin DOMAIN ROADMAP_MAPPINGS
    THEN [ outcome |-> "ValueError" ]
    ELSE LET score_band == get_score_band(score)
             module_ids == ROADMAP_MAPPINGS[dimension][score_band]
         IN  [ outcome |-> "returned",
               items |-> [i \in DOMAIN module_ids |->
                            [ module |-> module_ids[i],
                              dimension |-> dimension,
                              score_band |-> score_band ]] ]

\* The templates of _build_default_action_library, in library order: effort
\* in weeks, impact in tenths.
ACTION_LIBRARY ==
    [ data |->
        << [effort_weeks |-> 3, impact_score |-> 75, phase |-> "quick_wins"],
           [effort_weeks |-> 8, impact_score |-> 80, phase |-> "foundation"],
           [effort_weeks |-> 10, impact_score |-> 85, phase |-> "foundation"],
           [effort_weeks |-> 16, impact_score |-> 90, phase |-> "scale"],
           [effort_weeks |-> 20, impact_score |-> 85, phase |-> "optimize"] >>,
      process |->
        << [effort_weeks |-> 3, impact_score |-> 70, phase |-> "quick_wins"],
           [effort_weeks |-> 10, impact_score |-> 90, phase |-> "foundation"],
           [effort_weeks |-> 8, impact_score |-> 85, phase |-> "foundation"],
           [effort_weeks |-> 6, impact_score |-> 80, phase |-> "foundation"],
           [effort_weeks |-> 18, impact_score |-> 95, phase |-> "optimize"] >>,
      people |->
        << [effort_weeks |-> 4, impact_score |-> 75, phase |-> "quick_wins"],
           [effort_weeks |-> 6, impact_score |-> 75, phase |-> "quick_wins"],
           [effort_weeks |-> 8, impact_score |-> 85, phase |-> "foundation"],
           [effort_weeks |-> 12, impact_score |-> 80, phase |-> "scale"],
           [effort_weeks |-> 20, impact_score |-> 95, phase |-> "optimize"] >>,
      technology |->
        << [effort_weeks |-> 3, impact_score |-> 65, phase |-> "quick_wins"],
           [effort_weeks |-> 14, impact_score |-> 90, phase |-> "foundation"],
           [effort_weeks |-> 10, impact_score |-> 85, phase |-> "foundation"],
           [effort_weeks |-> 8, impact_score |-> 80, phase |-> "scale"],
           [effort_weeks |-> 22, impact_score |-> 80, phase |-> "optimize"] >>,
      governance |->
        << [effort_weeks |-> 4, impact_score |-> 80, phase |-> "quick_wins"],
           [effort_weeks |-> 6, impact_score |-> 85, phase |-> "quick_wins"],
           [effort_weeks |-> 8, impact_score |-> 85, phase |-> "foundation"],
           [effort_weeks |-> 12, impact_score |-> 85, phase |-> "scale"],
           [effort_weeks |-> 16, impact_score |-> 90, phase |-> "optimize"] >> ]

\* RoadmapPlanner.__init__: the default of initiative_cap.
initiative_cap == 20

\* The dict dimension_gaps that map_gaps_to_actions builds from the items
\* under the key "dimension_gaps": an item counts when its "dimension" is
\* non-empty and its "gap_to_best_in_class" (0.0 when the key is absent) is
\* positive; a later item of the same dimension replaces the value and keeps
\* the position.  Kept as a sequence of <<dimension, gap>> in insertion order.
RECURSIVE PositiveGapsFrom(_, _, _)
PositiveGapsFrom(items, i, found) ==
    IF i > Len(items) THEN found
    ELSE LET dimension == Get(items[i], "dimension", "")
             gap_value == Get(items[i], "gap_to_best_in_class", 0)
         IN  IF dimension # "" /\ gap_value > 0
             THEN IF \E k \in DOMAIN found : found[k][1] = dimension
                  THEN PositiveGapsFrom(items, i + 1,
                           [k \in DOMAIN found |->
                               IF found[k][1] = dimension
                               THEN <<dimension, gap_value>> ELSE found[k]])
                  ELSE PositiveGapsFrom(items, i + 1,
                                        Append(found, <<dimension, gap_value>>))
             ELSE PositiveGapsFrom(items, i + 1, found)

\* sorted(dimension_gaps.items(), key=gap, reverse=True): a stable sort, so
\* dimensions of equal gap keep their order.
RECURSIVE SortDimensionGaps(_, _)
SortDimensionGaps(pairs, sorted) ==
    IF pairs = << >> THEN sorted
    ELSE LET pair == Head(pairs)
             ahead == { k \in DOMAIN sorted : sorted[k][2] >= pair[2] }
             n == Cardinality(ahead)
         IN  SortDimensionGaps(Tail(pairs),
                 SubSeq(sorted, 1, n) \o <<pair>> \o SubSeq(sorted, n + 1, Len(sorted)))

\* The two loops of map_gaps_to_actions over the sorted dimensions and the
\* templates of each: a dimension that is not a key of the library has the
\* empty template list (self._library.get(dimension, [])); a template is
\* skipped when effort_weeks * 1.2 > horizon_months * 4.33 and it is not a
\* quick win; the loops stop at initiative_cap actions.  An action's id is
\* made from the running counter, which is what the id keeps here.
RECURSIVE ActionsFrom(_, _, _, _, _)
ActionsFrom(sorted_dims, d, t, months, actions) ==
    IF d > Len(sorted_dims) \/ Len(actions) >= initiative_cap THEN actions
    ELSE LET dimension == sorted_dims[d][1]
             gap == sorted_dims[d][2]
             dim_actions == Get(ACTION_LIBRARY, dimension, << >>)
         IN  IF t > Len(dim_actions)
             THEN ActionsFrom(sorted_dims, d + 1, 1, months, actions)
             ELSE LET action_template == dim_actions[t]
                  IN  IF /\ action_template.effort_weeks * 120 > months * 433
                         /\ action_template.phase # "quick_wins"
                      THEN ActionsFrom(sorted_dims, d, t + 1, months, actions)
                      ELSE ActionsFrom(sorted_dims, d, t + 1, months,
                               Append(actions,
                                   [ id |-> Len(actions) + 1,
                                     dimension |-> dimension,
                                     effort_weeks |-> action_template.effort_weeks,
                                     impact_score |-> action_template.impact_score,
                                     phase |-> action_template.phase,
                                     gap_addressed_points |-> Round2(gap, 1) ]))

\* RoadmapPlanner.map_gaps_to_actions.  The argument is a record
\* tagged with its type: a dict (kind "dict", value its keys and values) or
\* a list (kind "list", elements its elements).  gap_analysis.get("dimension_gaps", [])
\* is an attribute a list does not have: AttributeError.
map_gaps_to_actions(gap_arg, months) ==
    IF gap_arg.kind = "list"
    THEN [ outcome |-> "AttributeError" ]
    ELSE LET items == Get(gap_arg.value, "dimension_gaps", << >>)
             sorted_dims == SortDimensionGaps(PositiveGapsFrom(items, 1, << >>), << >>)
             actions == ActionsFrom(sorted_dims, 1, 1, months, << >>)
         IN  [ outcome |-> "returned",
               actions |-> actions,
               total_actions_count |-> Len(actions),
               dimensions_addressed |-> { actions[k].dimension : k \in DOMAIN actions },
               horizon_months |-> months ]

\* The dimension_summary of RoadmapPlanner.export_roadmap_json: the number
\* of actions of every dimension that has one.
dimension_summary(actions) ==
    [ dim \in { actions[k].dimension : k \in DOMAIN actions } |->
        [ action_count |-> Cardinality({ k \in DOMAIN actions : actions[k].dimension = dim }) ] ]

\* RoadmapPlanningService.generate_detailed_roadmap: the planner stages in
\* turn, an exception of a stage ending the call.  estimate_effort_and_impact
\* adds cost fields to every action and keeps their order.
generate_detailed_roadmap(gap_arg, months, streams) ==
    LET mapped == map_gaps_to_actions(gap_arg, months)
    IN  IF mapped.outcome # "returned" THEN [ outcome |-> mapped.outcome ]
        ELSE LET steps == sequence_by_priority(mapped.actions)
                 enriched == steps.sequenced_actions
                 schedule == generate_timeline(enriched, streams)
             IN  IF schedule.outcome # "returned" THEN [ outcome |-> schedule.outcome ]
                 ELSE LET marks == define_milestones(schedule.timeline_entries, months)
                      IN  [ outcome |-> "returned",
                            total_actions |-> Len(enriched),
                            dimension_summary |-> dimension_summary(enriched),
                            actions |-> enriched,
                            timeline |-> schedule.timeline_entries,
                            milestones |-> marks.milestones ]

\* The ways a gap analysis is handed to generate_detailed_roadmap: the list
\* of analyze_gap_vs_best_in_class as it is ("unchanged"), the list under the
\* key dimension_gaps ("wrapped"), and the list under that key with every
\* entry's gap under the key gap_to_best_in_class ("rekeyed"), the shape the
\* docstring of map_gaps_to_actions describes.
GapFeeds == {"unchanged", "wrapped", "rekeyed"}

FeedOf(feed, entries) ==
    CASE feed = "unchanged" -> [ kind |-> "list", elements |-> entries ]
      [] feed = "wrapped" -> [ kind |-> "dict", value |-> [ dimension_gaps |-> entries ] ]
      [] feed = "rekeyed" ->
            [ kind |-> "dict",
              value |-> [ dimension_gaps |->
                  [k \in DOMAIN entries |->
                      [ dimension |-> entries[k].dimension,
                        score |-> entries[k].current_score,
                        best_in_class_score |-> entries[k].best_in_class_score,
                        gap_to_best_in_class |-> entries[k].gap_size ]] ] ]

\* Largest number of items of a gap analysis handed to map_gaps_to_actions
\* directly.
MaxGapItems == 2

\* The dimensions and gaps of those items: two library dimensions, one that
\* the library does not have, and the empty name; no gap, 25 and 40 points.
GapItems ==
    { [ dimension |-> d, gap_to_best_in_class |-> g ] :
        d \in {"data", "governance", "agentic_ai", ""}, g \in {Pts(0), Pts(25), Pts(40)} }

\* The arguments tried: dicts of up to MaxGapItems items, a dict with a gap
\* of 30 points in every library dimension, a dict without the key and a list.
PlannerArguments ==
    { [ kind |-> "dict", value |-> [ dimension_gaps |-> items ] ] :
        items \in UNION { [1..n -> GapItems] : n \in 0..MaxGapItems } }
    \cup { [ kind |-> "dict",
             value |-> [ dimension_gaps |->
                 [k \in DOMAIN DIMENSIONS |->
                     [ dimension |-> DIMENSIONS[k], gap_to_best_in_class |-> Pts(30) ]] ] ],
           [ kind |-> "dict", value |-> [ overall_gap |-> Pts(10) ] ],
           [ kind |-> "list", elements |-> << >> ] }

\* The dimension names looked up: the keys of ROADMAP_MAPPINGS, the keys of
\* the action library and a name neither has.
LookupDimensions ==
    DOMAIN ROADMAP_MAPPINGS \cup DOMAIN ACTION_LIBRARY \cup {"agentic_ai"}

LookupScores == { Pts(0), 39990, Pts(40), 69990, Pts(70), Pts(100) }

IdleRoadmap ==
    /\ lookup_dimension = "governance"
    /\ lookup_score = Pts(0)
    /\ roadmap_items = {}
    /\ gap_argument = [ kind |-> "list", elements |-> << >> ]
    /\ action_map = {}
    /\ gap_feed = "unchanged"
    /\ detailed_roadmap = {}

\* Either a template lookup or a gap analysis for the planner is given.
InitRoadmap ==
    /\ roadmap_items = {}
    /\ action_map = {}
    /\ gap_feed = "unchanged"
    /\ detailed_roadmap = {}
    /\ \/ /\ lookup_dimension \in LookupDimensions
          /\ lookup_score \in LookupScores
          /\ gap_argument = [ kind |-> "list", elements |-> << >> ]
       \/ /\ lookup_dimension = "governance"
          /\ lookup_score = Pts(0)
          /\ gap_argument \in PlannerArguments

\* The planner settings of a roadmap request: the horizon in months and the
\* number of parallel streams.
InitPlanSettings ==
    /\ plan_actions = << >>
    /\ parallel_streams \in {0, 2}
    /\ horizon_months \in {3, 12}
    /\ sequenced = {}
    /\ timeline = {}
    /\ milestones = {}

\* The scores and benchmarks of the pipeline: data, process and governance
\* scored or not, against any benchmark record of the gap analysis.
PipelineScoreDicts ==
    { s \in GapScoreDicts : DOMAIN s \subseteq {"data", "process", "governance"} }

InitPipelineInputs ==
    /\ assessment_scores \in PipelineScoreDicts
    /\ gap_benchmark \in GapBenchmarks
    /\ gap_analysis = {}
    /\ priorities = {}
    /\ lookup_dimension = "governance"
    /\ lookup_score = Pts(0)
    /\ roadmap_items = {}
    /\ gap_argument = [ kind |-> "list", elements |-> << >> ]
    /\ action_map = {}
    /\ gap_feed \in GapFeeds
    /\ detailed_roadmap = {}

GetRoadmapItems ==
    /\ roadmap_items = {}
    /\ roadmap_items' = {get_roadmap_items_for_dimension(lookup_dimension, lookup_score)}
    /\ UNCHANGED <<lookup_dimension, lookup_score, gap_argument, action_map, gap_feed,
                   detailed_roadmap>>

MapGapsToActions ==
    /\ action_map = {}
    /\ action_map' = {map_gaps_to_actions(gap_argument, horizon_months)}
    /\ UNCHANGED <<lookup_dimension, lookup_score, roadmap_items, gap_argument, gap_feed,
                   detailed_roadmap>>

\* generate_detailed_roadmap called with the gap analysis of
\* analyze_gap_vs_best_in_class, handed over in the way gap_feed says.
GenerateDetailedRoadmap ==
    /\ detailed_roadmap = {}
    /\ \E entries \in gap_analysis :
          detailed_roadmap' =
              {generate_detailed_roadmap(FeedOf(gap_feed, entries), horizon_months,
                                         parallel_streams)}
    /\ UNCHANGED <<lookup_dimension, lookup_score, roadmap_items, gap_argument, action_map,
                   gap_feed>>

(***************************************************************************)
(* Scoring an assessment: AssessmentService.submit_responses and           *)
(* score_assessment (core/services.py), update_scores (repositories.py)    *)
(***************************************************************************)
\* core/services.VALID_DIMENSIONS
VALID_DIMENSIONS == { "data", "process", "people", "technology", "governance" }

\* Largest number of score_assessment calls made for the assessment.
MaxScoreCalls == 2

\* Largest number of response rows stored for the assessment.
MaxStoredResponses == 6

\* The tenant that owns the assessment and another tenant.
Tenants == { "tenant_a", "tenant_b" }

\* The response batches submitted: data and process at 40; people,
\* technology and governance at 80; data at 100 with weight 2.0; and one
\* response of a dimension that is not valid.
ResponseBatches ==
    { << [dimension |-> "data", numeric_score |-> Pts(40), weight |-> 100],
         [dimension |-> "process", numeric_score |-> Pts(40), weight |-> 100] >>,
      << [dimension |-> "people", numeric_score |-> Pts(80), weight |-> 100],
         [dimension |-> "technology", numeric_score |-> Pts(80), weight |-> 100],
         [dimension |-> "governance", numeric_score |-> Pts(80), weight |-> 100] >>,
      << [dimension |-> "data", numeric_score |-> Pts(100), weight |-> 200] >>,
      << [dimension |-> "agentic_ai", numeric_score |-> Pts(100), weight |-> 100] >> }

\* A score_assessment call that has not been made.
IdleCall ==
    [ pc |-> "idle", tenant_id |-> "tenant_a", after_completion |-> FALSE,
      dimension_weights |-> << >>, scores |-> {}, outcome |-> "" ]

\* AssessmentRepository.get_by_id: the row, when the tenant is its owner.
get_by_id(tenant_id) ==
    IF assessment_row.tenant_id = tenant_id THEN {assessment_row} ELSE {}

\* Mutant of ScorableStatus: a completed assessment is scored again.
ScorableStatusOrCompleted(status) == status \in {"in_progress", "completed"}

\* The status test of score_assessment: anything but in_progress is a
\* ConflictError.
ScorableStatus(status) == status = "in_progress"

\* AssessmentService.submit_responses: NotFoundError for a tenant that does
\* not own the assessment, ConflictError unless it is in_progress and every
\* dimension is valid; else the responses are stored.
SubmitResponses ==
    \E tenant_id \in Tenants, batch \in ResponseBatches :
        /\ Len(stored_responses) + Len(batch) <= MaxStoredResponses
        /\ stored_responses' =
              IF /\ get_by_id(tenant_id) # {}
                 /\ assessment_row.status = "in_progress"
                 /\ \A k \in DOMAIN batch : batch[k].dimension \in VALID_DIMENSIONS
              THEN stored_responses \o batch
              ELSE stored_responses
        /\ UNCHANGED <<assessment_row, score_calls, engine_invocations,
                       update_scores_calls, completed_events>>

\* score_assessment up to its first database read: get_assessment raises
\* NotFoundError without a row, then the status test raises ConflictError;
\* else the call goes on with the row it has read.
ScoreGetAssessment ==
    \E c \in DOMAIN score_calls, tenant_id \in Tenants :
        /\ score_calls[c].pc = "idle"
        /\ LET started == [ IdleCall EXCEPT
                   !.tenant_id = tenant_id,
                   !.after_completion = (assessment_row.status = "completed") ]
           IN  score_calls' = [ score_calls EXCEPT ![c] =
                   IF get_by_id(tenant_id) = {}
                   THEN [ started EXCEPT !.pc = "done", !.outcome = "NotFoundError" ]
                   ELSE IF ~ScorableStatus(assessment_row.status)
                   THEN [ started EXCEPT !.pc = "done", !.outcome = "ConflictError" ]
                   ELSE [ started EXCEPT !.pc = "list_responses",
                             !.dimension_weights = assessment_row.dimension_weights ] ]
        /\ UNCHANGED <<assessment_row, stored_responses, engine_invocations,
                       update_scores_calls, completed_events>>

\* score_assessment from list_by_assessment to the scoring engine:
\* ConflictError without responses or with a dimension not covered; else
\* compute_scores is called with the responses and the weights of the row
\* read before.
ScoreComputeScores ==
    \E c \in DOMAIN score_calls :
        /\ score_calls[c].pc = "list_responses"
        /\ LET covered_dimensions ==
                   { stored_responses[k].dimension : k \in DOMAIN stored_responses }
               missing == VALID_DIMENSIONS \ covered_dimensions
           IN  IF stored_responses = << >> \/ missing # {}
               THEN /\ score_calls' = [ score_calls EXCEPT
                           ![c].pc = "done", ![c].outcome = "ConflictError" ]
                    /\ UNCHANGED engine_invocations
               ELSE /\ score_calls' = [ score_calls EXCEPT
                           ![c].pc = "update_scores",
                           ![c].scores = {compute_scores(stored_responses,
                                                         score_calls[c].dimension_weights)} ]
                    /\ engine_invocations' = engine_invocations + 1
        /\ UNCHANGED <<assessment_row, stored_responses, update_scores_calls,
                       completed_events>>

\* AssessmentRepository.update_scores, called by score_assessment: the
\* UPDATE writes the scores and status = "completed" to the row of the id,
\* whatever its status.
ScoreUpdateScores ==
    \E c \in DOMAIN score_calls :
        /\ score_calls[c].pc = "update_scores"
        /\ assessment_row' = [ assessment_row EXCEPT
               !.status = "completed", !.scores = score_calls[c].scores ]
        /\ update_scores_calls' = update_scores_calls + 1
        /\ score_calls' = [ score_calls EXCEPT ![c].pc = "publish" ]
        /\ UNCHANGED <<stored_responses, engine_invocations, completed_events>>

\* The end of score_assessment: the maturity.assessment.completed event.
ScorePublish ==
    \E c \in DOMAIN score_calls :
        /\ score_calls[c].pc = "publish"
        /\ completed_events' = Append(completed_events,
               [ event_type |-> "maturity.assessment.completed",
                 scores |-> score_calls[c].scores ])
        /\ score_calls' = [ score_calls EXCEPT ![c].pc = "done", ![c].outcome = "returned" ]
        /\ UNCHANGED <<assessment_row, stored_responses, engine_invocations,
                       update_scores_calls>>

\* No assessment is being scored.
IdleLifecycle ==
    /\ assessment_row = [ tenant_id |-> "tenant_a", status |-> "in_progress",
                          dimension_weights |-> DEFAULT_DIMENSION_WEIGHTS, scores |-> {} ]
    /\ stored_responses = << >>
    /\ score_calls = << >>
    /\ engine_invocations = 0
    /\ update_scores_calls = 0
    /\ completed_events = << >>

\* An assessment as create_assessment leaves it: in_progress, no scores, no
\* responses; its weights are the default or the six-dimension set.
InitLifecycle ==
    /\ assessment_row \in
          { [ tenant_id |-> "tenant_a", status |-> "in_progress",
              dimension_weights |-> w, scores |-> {} ] :
            w \in {DEFAULT_DIMENSION_WEIGHTS, SIX_DIMENSION_WEIGHTS} }
    /\ stored_responses = << >>
    /\ score_calls = [ c \in 1..MaxScoreCalls |-> IdleCall ]
    /\ engine_invocations = 0
    /\ update_scores_calls = 0
    /\ completed_events = << >>

(***************************************************************************)
(* Self-service session: submit_answer and complete_assessment             *)
(* (core/services/assessment_service.py, repositories/assessment_repository.py) *)
(***************************************************************************)
\* Largest number of complete_assessment calls made for the session.
MaxCompleteCalls == 2

\* Largest number of answers stored for the session.
MaxSessionAnswers == 2

\* The questions answered in the session: two of the bank and one that the
\* bank does not have.  Every question is answered at most once.
SessionQuestions == { "DATA_01", "GOV_01", UnknownQuestionId }

\* A complete_assessment call that has not been made.
IdleCompletion ==
    [ pc |-> "idle", after_result |-> FALSE, answer_records |-> << >>, outcome |-> "" ]

\* Mutant of SessionCompleted: the existing result is never found.
SessionCompletedNever(results) == FALSE

\* The test of complete_assessment on get_result_by_session: a result row
\* of the session exists.
SessionCompleted(results) == results # << >>

\* AssessmentService.submit_answer: QuestionNotFoundError for a question
\* that is not in the bank, else the answer is stored.  The session is not
\* looked at, so answers are also stored after its completion.
SubmitAnswer ==
    \E question_id \in SessionQuestions \ DOMAIN session_answers, answer_value \in {1, 5} :
        /\ Cardinality(DOMAIN session_answers) < MaxSessionAnswers
        /\ session_answers' =
              IF question_id \notin BankIds THEN session_answers
              ELSE [ q \in DOMAIN session_answers \cup {question_id} |->
                        IF q = question_id THEN answer_value ELSE session_answers[q] ]
        /\ UNCHANGED <<result_records, complete_calls>>

\* complete_assessment up to its first database read:
\* AssessmentAlreadyCompletedError when the session has a result.
CompleteGetResult ==
    \E c \in DOMAIN complete_calls :
        /\ complete_calls[c].pc = "idle"
        /\ complete_calls' = [ complete_calls EXCEPT ![c] =
               IF SessionCompleted(result_records)
               THEN [ IdleCompletion EXCEPT
                         !.pc = "done", !.after_result = (result_records # << >>),
                         !.outcome = "AssessmentAlreadyCompletedError" ]
               ELSE [ IdleCompletion EXCEPT
                         !.pc = "get_responses", !.after_result = (result_records # << >>) ] ]
        /\ UNCHANGED <<session_answers, result_records>>

\* complete_assessment reading the answers: AssessmentNotFoundError without
\* any.
CompleteGetResponses ==
    \E c \in DOMAIN complete_calls :
        /\ complete_calls[c].pc = "get_responses"
        /\ complete_calls' = [ complete_calls EXCEPT ![c] =
               IF session_answers = << >>
               THEN [ @ EXCEPT !.pc = "done", !.outcome = "AssessmentNotFoundError" ]
               ELSE [ @ EXCEPT !.pc = "create_result", !.answer_records = session_answers ] ]
        /\ UNCHANGED <<session_answers, result_records>>

\* complete_assessment scoring the answers it has read (no benchmark rows
\* are stored) and persisting the result.  session_id is a unique column of
\* lm_assessment_results, so the INSERT of a second row for the session
\* fails with IntegrityError.
CompleteCreateResult ==
    \E c \in DOMAIN complete_calls :
        /\ complete_calls[c].pc = "create_result"
        /\ LET scoring_result ==
                   score_assessment(complete_calls[c].answer_records, "", << >>)
           IN  IF result_records # << >>
               THEN /\ complete_calls' = [ complete_calls EXCEPT
                           ![c].pc = "done", ![c].outcome = "IntegrityError" ]
                    /\ UNCHANGED result_records
               ELSE /\ result_records' = Append(result_records, scoring_result)
                    /\ complete_calls' = [ complete_calls EXCEPT
                           ![c].pc = "done", ![c].outcome = "returned" ]
        /\ UNCHANGED session_answers

\* No session is open.
IdleSession ==
    /\ session_answers = << >>
    /\ result_records = << >>
    /\ complete_calls = << >>

\* A session as start_assessment leaves it: no answers, no result.
InitSession ==
    /\ session_answers = << >>
    /\ result_records = << >>
    /\ complete_calls = [ c \in 1..MaxCompleteCalls |-> IdleCompletion ]

(***************************************************************************)
(* Dependencies between actions (RoadmapPlanner.identify_dependencies)     *)
(***************************************************************************)
\* Largest number of actions handed to identify_dependencies.
MaxDependencyActions == 3

\* The keys of by_dimension in the order of the dict: the dimensions of the
\* actions in the order of their first appearance.
RECURSIVE DimensionKeys(_, _)
DimensionKeys(actions, seen) ==
    IF actions = << >> THEN << >>
    ELSE IF Head(actions).dimension \in seen
         THEN DimensionKeys(Tail(actions), seen)
         ELSE << Head(actions).dimension >>
                  \o DimensionKeys(Tail(actions), seen \cup {Head(actions).dimension})

\* by_dimension.get(dimension, [])
ByDimension(actions, dimension) ==
    SelectSeq(actions, LAMBDA a : a.dimension = dimension)

\* sorted(dim_actions, key=phase rank): sorted() is stable, the actions of
\* one rank keep their order.
SortByPhase(dim_actions) ==
    SelectSeq(dim_actions, LAMBDA a : PhaseRank(a.phase) = 0)
      \o SelectSeq(dim_actions, LAMBDA a : PhaseRank(a.phase) = 1)
      \o SelectSeq(dim_actions, LAMBDA a : PhaseRank(a.phase) = 2)
      \o SelectSeq(dim_actions, LAMBDA a : PhaseRank(a.phase) = 3)

\* The loop over range(len(sorted_dim) - 1) from position i on: an edge
\* between neighbours of different phase.
RECURSIVE PhaseSequenceFrom(_, _)
PhaseSequenceFrom(sorted_dim, i) ==
    IF i >= Len(sorted_dim) THEN << >>
    ELSE (IF sorted_dim[i].phase # sorted_dim[i + 1].phase
          THEN << [ from_action_id |-> sorted_dim[i].id,
                    to_action_id |-> sorted_dim[i + 1].id,
                    dependency_type |-> "phase_sequence" ] >>
          ELSE << >>)
         \o PhaseSequenceFrom(sorted_dim, i + 1)

\* The intra-dimension loop over by_dimension.items().
RECURSIVE IntraDimensionEdges(_, _)
IntraDimensionEdges(keys, actions) ==
    IF keys = << >> THEN << >>
    ELSE PhaseSequenceFrom(SortByPhase(ByDimension(actions, Head(keys))), 1)
           \o IntraDimensionEdges(Tail(keys), actions)

\* The edges of one (dimension, prereq_dim) pair: from at most two actions
\* of the prerequisite dimension in phase quick_wins or foundation (its first
\* action when there is none) to the first action of lowest phase rank of
\* the dependent dimension.
PairEdges(dimension, prereq_dim, actions) ==
    LET dim_actions == ByDimension(actions, dimension)
        prereq_actions == ByDimension(actions, prereq_dim)
        in_foundation == SelectSeq(prereq_actions,
                                   LAMBDA a : a.phase \in {"quick_wins", "foundation"})
        prereq_foundation == IF in_foundation = << >>
                             THEN SubSeq(prereq_actions, 1, 1)
                             ELSE in_foundation
        first_dependent == Head(SortByPhase(dim_actions))
    IN  IF prereq_actions = << >> \/ dim_actions = << >> THEN << >>
        ELSE [ k \in 1 .. Min(2, Len(prereq_foundation)) |->
                 [ from_action_id |-> prereq_foundation[k].id,
                   to_action_id |-> first_dependent.id,
                   dependency_type |-> "cross_dimension" ] ]

\* The loop over the prereq_dims of one dimension.
RECURSIVE PrerequisiteEdges(_, _, _)
PrerequisiteEdges(dimension, prereq_dims, actions) ==
    IF prereq_dims = << >> THEN << >>
    ELSE PairEdges(dimension, Head(prereq_dims), actions)
           \o PrerequisiteEdges(dimension, Tail(prereq_dims), actions)

\* The inter-dimension loop over DIMENSION_DEPENDENCIES.items().
RECURSIVE CrossDimensionEdges(_, _)
CrossDimensionEdges(table, actions) ==
    IF table = << >> THEN << >>
    ELSE PrerequisiteEdges(Head(table)[1], Head(table)[2], actions)
           \o CrossDimensionEdges(Tail(table), actions)

\* RoadmapPlanner.identify_dependencies (the descriptions and titles are
\* left out).
identify_dependencies(actions) ==
    LET dependencies ==
            IntraDimensionEdges(DimensionKeys(actions, {}), actions)
              \o CrossDimensionEdges(DIMENSION_DEPENDENCIES, actions)
        dependent_action_ids ==
            { dependencies[k].to_action_id : k \in DOMAIN dependencies }
    IN  [ dependencies |-> dependencies,
          dependency_graph |->
              [ t \in dependent_action_ids |->
                  LET to_t == SelectSeq(dependencies, LAMBDA dep : dep.to_action_id = t)
                  IN  [ k \in DOMAIN to_t |-> to_t[k].from_action_id ] ],
          orphaned_actions |->
              LET orphans == SelectSeq(actions, LAMBDA a : a.id \notin dependent_action_ids)
              IN  [ k \in DOMAIN orphans |-> orphans[k].id ] ]

\* The dimensions and phases of the actions tried; "pilot" is a phase that
\* is not in PHASE_ORDER.
DependencyDimensions == { "data", "process", "governance" }
DependencyPhases == { "quick_wins", "foundation", "scale", "pilot" }

\* Lists of up to MaxDependencyActions actions with unique ids.
DependencyActionLists ==
    UNION { [ 1..n -> [ dimension : DependencyDimensions, phase : DependencyPhases ] ] :
            n \in 0..MaxDependencyActions }

\* identify_dependencies has not been called.
IdleDependencies ==
    /\ dependency_actions = << >>
    /\ dependency_result = {}

InitDependencies ==
    /\ dependency_actions \in
          { [ i \in DOMAIN picks |-> picks[i] @@ [id |-> i] ] : picks \in DependencyActionLists }
    /\ dependency_result = {}

IdentifyDependencies ==
    /\ dependency_result = {}
    /\ dependency_result' = {identify_dependencies(dependency_actions)}
    /\ UNCHANGED dependency_actions

(***************************************************************************)
(* Report generation (ReportService.generate_report, ReportRepository)     *)
(*                                                                         *)
(* A call is followed through its awaited operations.  Every awaited       *)
(* collaborator call after the report row exists (benchmark and roadmap    *)
(* lookups, the generator, mark_ready, the publisher) either returns or    *)
(* raises; mark_ready raises before its UPDATE takes effect; mark_failed,  *)
(* the handler of last resort, is taken to succeed.                        *)
(***************************************************************************)
\* Largest number of generate_report calls followed.
MaxReportCalls == 2

\* A call that has not started: its position, whether a roadmap_id was
\* given, the id of the report it created (0 for none) and its outcome.
IdleReportCall == [ pc |-> "idle", roadmap_given |-> FALSE, report_id |-> 0,
                    outcome |-> "none" ]

\* ReportRepository.create: a row in status generating.  marks lists the
\* statuses mark_ready and mark_failed have written to the row since.
NewReport == [ status |-> "generating", marks |-> << >> ]

\* ReportRepository.mark_ready: UPDATE ... SET status = 'ready' WHERE id.
mark_ready(rows, report_id) ==
    [ rows EXCEPT ![report_id] =
        [ status |-> "ready", marks |-> Append(rows[report_id].marks, "ready") ] ]

\* ReportRepository.mark_failed: UPDATE ... SET status = 'failed' WHERE id.
mark_failed(rows, report_id) ==
    [ rows EXCEPT ![report_id] =
        [ status |-> "failed", marks |-> Append(rows[report_id].marks, "failed") ] ]

\* generate_report is called, with or without a roadmap_id.
ReportStart ==
    \E c \in DOMAIN report_calls :
        /\ report_calls[c].pc = "idle"
        /\ \E given \in BOOLEAN :
              report_calls' = [report_calls EXCEPT ![c] =
                  [@ EXCEPT !.pc = "get_assessment", !.roadmap_given = given]]
        /\ UNCHANGED <<reported_assessment, report_rows>>

\* assessment = get_by_id(...); NotFoundError without one, ConflictError
\* unless it is completed.
ReportGetAssessment ==
    \E c \in DOMAIN report_calls :
        /\ report_calls[c].pc = "get_assessment"
        /\ report_calls' = [report_calls EXCEPT ![c] =
              IF reported_assessment = "missing"
              THEN [@ EXCEPT !.pc = "done", !.outcome = "NotFoundError"]
              ELSE IF reported_assessment # "completed"
              THEN [@ EXCEPT !.pc = "done", !.outcome = "ConflictError"]
              ELSE [@ EXCEPT !.pc = "create"]]
        /\ UNCHANGED <<reported_assessment, report_rows>>

\* report = await self._reports.create(...)
ReportCreate ==
    \E c \in DOMAIN report_calls :
        /\ report_calls[c].pc = "create"
        /\ report_rows' = Append(report_rows, NewReport)
        /\ report_calls' = [report_calls EXCEPT ![c] =
              [@ EXCEPT !.pc = "load_benchmark", !.report_id = Len(report_rows) + 1]]
        /\ UNCHANGED reported_assessment

\* benchmark = await self._benchmarks.get_active_benchmark(...), outside the
\* try block: an exception leaves generate_report at once.
ReportLoadBenchmark ==
    \E c \in DOMAIN report_calls :
        /\ report_calls[c].pc = "load_benchmark"
        /\ \E raises \in BOOLEAN :
              report_calls' = [report_calls EXCEPT ![c] =
                  IF raises THEN [@ EXCEPT !.pc = "done", !.outcome = "raised"]
                  ELSE [@ EXCEPT !.pc = IF report_calls[c].roadmap_given
                                        THEN "load_roadmap" ELSE "generate"]]
        /\ UNCHANGED <<reported_assessment, report_rows>>

\* roadmap = await self._roadmaps.get_by_id(...), outside the try block.
ReportLoadRoadmap ==
    \E c \in DOMAIN report_calls :
        /\ report_calls[c].pc = "load_roadmap"
        /\ \E raises \in BOOLEAN :
              report_calls' = [report_calls EXCEPT ![c] =
                  IF raises THEN [@ EXCEPT !.pc = "done", !.outcome = "raised"]
                  ELSE [@ EXCEPT !.pc = "generate"]]
        /\ UNCHANGED <<reported_assessment, report_rows>>

\* generated = await self._generator.generate(...), inside the try block.
ReportGenerate ==
    \E c \in DOMAIN report_calls :
        /\ report_calls[c].pc = "generate"
        /\ \E raises \in BOOLEAN :
              report_calls' = [report_calls EXCEPT ![c] =
                  [@ EXCEPT !.pc = IF raises THEN "mark_failed" ELSE "mark_ready"]]
        /\ UNCHANGED <<reported_assessment, report_rows>>

\* updated = await self._reports.mark_ready(...), inside the try block.
ReportMarkReady ==
    \E c \in DOMAIN report_calls :
        /\ report_calls[c].pc = "mark_ready"
        /\ \E raises \in BOOLEAN :
              IF raises
              THEN /\ report_calls' = [report_calls EXCEPT ![c] = [@ EXCEPT !.pc = "mark_failed"]]
                   /\ UNCHANGED report_rows
              ELSE /\ report_rows' = mark_ready(report_rows, report_calls[c].report_id)
                   /\ report_calls' = [report_calls EXCEPT ![c] = [@ EXCEPT !.pc = "publish"]]
        /\ UNCHANGED reported_assessment

\* await self._publisher.publish(...), inside the try block, then return.
ReportPublish ==
    \E c \in DOMAIN report_calls :
        /\ report_calls[c].pc = "publish"
        /\ \E raises \in BOOLEAN :
              report_calls' = [report_calls EXCEPT ![c] =
                  IF raises THEN [@ EXCEPT !.pc = "mark_failed"]
                  ELSE [@ EXCEPT !.pc = "done", !.outcome = "returned"]]
        /\ UNCHANGED <<reported_assessment, report_rows>>

\* except Exception: await self._reports.mark_failed(...); raise
ReportMarkFailed ==
    \E c \in DOMAIN report_calls :
        /\ report_calls[c].pc = "mark_failed"
        /\ report_rows' = mark_failed(report_rows, report_calls[c].report_id)
        /\ report_calls' = [report_calls EXCEPT ![c] =
              [@ EXCEPT !.pc = "done", !.outcome = "raised"]]
        /\ UNCHANGED reported_assessment

\* No report is being generated.
IdleReports ==
    /\ reported_assessment = "completed"
    /\ report_rows = << >>
    /\ report_calls = << >>

\* An assessment that is missing, in progress or completed, and no report.
InitReports ==
    /\ reported_assessment \in { "missing", "in_progress", "completed" }
    /\ report_rows = << >>
    /\ report_calls = [ c \in 1..MaxReportCalls |-> IdleReportCall ]

NextLevel ==
    \/ ClassifyEngine /\ UNCHANGED <<scorerVars, engineVars, serviceVars, peerVars, percentileVars, gapVars, planVars, roadmapVars, lifecycleVars, sessionVars, dependencyVars, reportVars>>
    \/ ClassifyScorer /\ UNCHANGED <<scorerVars, engineVars, serviceVars, peerVars, percentileVars, gapVars, planVars, roadmapVars, lifecycleVars, sessionVars, dependencyVars, reportVars>>

\* The two classifiers on every score of the grid.
InitClassifiers ==
    /\ InitLevel /\ IdleScorer /\ IdleEngine /\ IdleService /\ IdlePeer
    /\ IdlePercentile /\ IdleGap /\ IdlePlan
    /\ IdleRoadmap
    /\ IdleLifecycle
    /\ IdleSession
    /\ IdleDependencies
    /\ IdleReports

SpecLevel == InitClassifiers /\ [][NextLevel]_vars

NextScoring ==
    \/ ScoreAssessment /\ UNCHANGED <<levelVars, engineVars, serviceVars, peerVars, percentileVars, gapVars, planVars, roadmapVars, lifecycleVars, sessionVars, dependencyVars, reportVars>>
    \/ ComputeScores /\ UNCHANGED <<levelVars, scorerVars, serviceVars, peerVars, percentileVars, gapVars, planVars, roadmapVars, lifecycleVars, sessionVars, dependencyVars, reportVars>>

\* The two scoring pipelines, each on its own inputs: a behaviour scores
\* either an answer sheet (self-service scorer) or a response list
\* (enterprise engine).
InitScoring ==
    /\ IdleLevel
    /\ IdleService
    /\ IdlePeer
    /\ IdlePercentile
    /\ IdleGap
    /\ IdlePlan
    /\ \/ InitScorer /\ IdleEngine
       \/ IdleScorer /\ InitEngine
    /\ IdleRoadmap
    /\ IdleLifecycle
    /\ IdleSession
    /\ IdleDependencies
    /\ IdleReports

SpecScoring == InitScoring /\ [][NextScoring]_vars

NextService ==
    \/ CallCreateAssessment /\ UNCHANGED <<levelVars, scorerVars, engineVars, peerVars, percentileVars, gapVars, planVars, roadmapVars, lifecycleVars, sessionVars, dependencyVars, reportVars>>
    \/ CallResolveDimensionWeights /\ UNCHANGED <<levelVars, scorerVars, engineVars, peerVars, percentileVars, gapVars, planVars, roadmapVars, lifecycleVars, sessionVars, dependencyVars, reportVars>>

InitService ==
    /\ IdleService /\ IdleLevel /\ IdleScorer /\ IdleEngine /\ IdlePeer
    /\ IdlePercentile /\ IdleGap /\ IdlePlan
    /\ IdleRoadmap
    /\ IdleLifecycle
    /\ IdleSession
    /\ IdleDependencies
    /\ IdleReports

\* The assessment service and the dimension config service, called in any
\* order with any arguments.
SpecService == InitService /\ [][NextService]_vars

NextPeer ==
    SelectPeerGroup /\ UNCHANGED <<levelVars, scorerVars, engineVars, serviceVars, percentileVars, gapVars, planVars, roadmapVars, lifecycleVars, sessionVars, dependencyVars, reportVars>>

InitPeerGroup ==
    /\ InitPeer /\ IdleLevel /\ IdleScorer /\ IdleEngine /\ IdleService
    /\ IdlePercentile /\ IdleGap /\ IdlePlan
    /\ IdleRoadmap
    /\ IdleLifecycle
    /\ IdleSession
    /\ IdleDependencies
    /\ IdleReports

\* select_peer_group called on any list of benchmark records.
SpecPeer == InitPeerGroup /\ [][NextPeer]_vars

NextPercentile ==
    \/ InterpolatePercentile
         /\ UNCHANGED <<levelVars, scorerVars, engineVars, serviceVars, peerVars, gapVars, planVars, roadmapVars, lifecycleVars, sessionVars, dependencyVars, reportVars>>
    \/ ComputePeerPercentile
         /\ UNCHANGED <<levelVars, scorerVars, engineVars, serviceVars, peerVars, gapVars, planVars, roadmapVars, lifecycleVars, sessionVars, dependencyVars, reportVars>>

InitPercentiles ==
    /\ InitPercentile /\ IdleLevel /\ IdleScorer /\ IdleEngine /\ IdleService
    /\ IdlePeer /\ IdleGap /\ IdlePlan
    /\ IdleRoadmap
    /\ IdleLifecycle
    /\ IdleSession
    /\ IdleDependencies
    /\ IdleReports

\* Both percentile estimators applied to any score and any quantiles.
SpecPercentile == InitPercentiles /\ [][NextPercentile]_vars

NextGap ==
    \/ AnalyzeGap
         /\ UNCHANGED <<levelVars, scorerVars, engineVars, serviceVars, peerVars,
                        percentileVars, planVars, roadmapVars, lifecycleVars, sessionVars, dependencyVars, reportVars>>
    \/ ScorePriorities
         /\ UNCHANGED <<levelVars, scorerVars, engineVars, serviceVars, peerVars,
                        percentileVars, planVars, roadmapVars, lifecycleVars, sessionVars, dependencyVars, reportVars>>

InitGapAnalysis ==
    /\ InitGap /\ IdleLevel /\ IdleScorer /\ IdleEngine /\ IdleService
    /\ IdlePeer /\ IdlePercentile /\ IdlePlan
    /\ IdleRoadmap
    /\ IdleLifecycle
    /\ IdleSession
    /\ IdleDependencies
    /\ IdleReports

\* analyze_gap_vs_best_in_class called on any scores and any benchmark.
SpecGap == InitGapAnalysis /\ [][NextGap]_vars

NextPlan ==
    \/ SequenceByPriority
         /\ UNCHANGED <<levelVars, scorerVars, engineVars, serviceVars, peerVars,
                        percentileVars, gapVars, roadmapVars, lifecycleVars, sessionVars, dependencyVars, reportVars>>
    \/ GenerateTimeline
         /\ UNCHANGED <<levelVars, scorerVars, engineVars, serviceVars, peerVars,
                        percentileVars, gapVars, roadmapVars, lifecycleVars, sessionVars, dependencyVars, reportVars>>
    \/ DefineMilestones
         /\ UNCHANGED <<levelVars, scorerVars, engineVars, serviceVars, peerVars,
                        percentileVars, gapVars, roadmapVars, lifecycleVars, sessionVars, dependencyVars, reportVars>>

InitPlanner ==
    /\ InitPlan /\ IdleLevel /\ IdleScorer /\ IdleEngine /\ IdleService
    /\ IdlePeer /\ IdlePercentile /\ IdleGap
    /\ IdleRoadmap
    /\ IdleLifecycle
    /\ IdleSession
    /\ IdleDependencies
    /\ IdleReports

\* The planner stages applied in turn to any list of actions.
SpecPlan == InitPlanner /\ [][NextPlan]_vars

NextLookup ==
    \/ GetRoadmapItems
         /\ UNCHANGED <<levelVars, scorerVars, engineVars, serviceVars, peerVars,
                        percentileVars, gapVars, planVars, lifecycleVars, sessionVars, dependencyVars, reportVars>>
    \/ MapGapsToActions
         /\ UNCHANGED <<levelVars, scorerVars, engineVars, serviceVars, peerVars,
                        percentileVars, gapVars, planVars, lifecycleVars, sessionVars, dependencyVars, reportVars>>

InitLookups ==
    /\ InitRoadmap /\ InitPlanSettings /\ IdleLevel /\ IdleScorer /\ IdleEngine
    /\ IdleService /\ IdlePeer /\ IdlePercentile /\ IdleGap
    /\ IdleLifecycle
    /\ IdleSession
    /\ IdleDependencies
    /\ IdleReports

\* A template lookup or a direct call of map_gaps_to_actions.
SpecLookup == InitLookups /\ [][NextLookup]_vars

NextPipeline ==
    \/ AnalyzeGap
         /\ UNCHANGED <<levelVars, scorerVars, engineVars, serviceVars, peerVars,
                        percentileVars, planVars, roadmapVars, lifecycleVars, sessionVars, dependencyVars, reportVars>>
    \/ GenerateDetailedRoadmap
         /\ UNCHANGED <<levelVars, scorerVars, engineVars, serviceVars, peerVars,
                        percentileVars, gapVars, planVars, lifecycleVars, sessionVars, dependencyVars, reportVars>>

InitPipeline ==
    /\ InitPipelineInputs /\ InitPlanSettings /\ IdleLevel /\ IdleScorer /\ IdleEngine
    /\ IdleService /\ IdlePeer /\ IdlePercentile
    /\ IdleLifecycle
    /\ IdleSession
    /\ IdleDependencies
    /\ IdleReports

\* A gap analysis followed by the detailed roadmap made from it.
SpecPipeline == InitPipeline /\ [][NextPipeline]_vars

NextLifecycle ==
    \/ SubmitResponses
         /\ UNCHANGED <<levelVars, scorerVars, engineVars, serviceVars, peerVars,
                        percentileVars, gapVars, planVars, roadmapVars, sessionVars, dependencyVars, reportVars>>
    \/ ScoreGetAssessment
         /\ UNCHANGED <<levelVars, scorerVars, engineVars, serviceVars, peerVars,
                        percentileVars, gapVars, planVars, roadmapVars, sessionVars, dependencyVars, reportVars>>
    \/ ScoreComputeScores
         /\ UNCHANGED <<levelVars, scorerVars, engineVars, serviceVars, peerVars,
                        percentileVars, gapVars, planVars, roadmapVars, sessionVars, dependencyVars, reportVars>>
    \/ ScoreUpdateScores
         /\ UNCHANGED <<levelVars, scorerVars, engineVars, serviceVars, peerVars,
                        percentileVars, gapVars, planVars, roadmapVars, sessionVars, dependencyVars, reportVars>>
    \/ ScorePublish
         /\ UNCHANGED <<levelVars, scorerVars, engineVars, serviceVars, peerVars,
                        percentileVars, gapVars, planVars, roadmapVars, sessionVars, dependencyVars, reportVars>>

InitAssessmentLifecycle ==
    /\ InitLifecycle /\ IdleLevel /\ IdleScorer /\ IdleEngine /\ IdleService
    /\ IdlePeer /\ IdlePercentile /\ IdleGap /\ IdlePlan /\ IdleRoadmap
    /\ IdleSession
    /\ IdleDependencies
    /\ IdleReports

\* Responses submitted and score_assessment called for one assessment, the
\* calls interleaving at their database operations.
SpecLifecycle == InitAssessmentLifecycle /\ [][NextLifecycle]_vars

NextSession ==
    \/ SubmitAnswer
         /\ UNCHANGED <<levelVars, scorerVars, engineVars, serviceVars, peerVars,
                        percentileVars, gapVars, planVars, roadmapVars, lifecycleVars, dependencyVars, reportVars>>
    \/ CompleteGetResult
         /\ UNCHANGED <<levelVars, scorerVars, engineVars, serviceVars, peerVars,
                        percentileVars, gapVars, planVars, roadmapVars, lifecycleVars, dependencyVars, reportVars>>
    \/ CompleteGetResponses
         /\ UNCHANGED <<levelVars, scorerVars, engineVars, serviceVars, peerVars,
                        percentileVars, gapVars, planVars, roadmapVars, lifecycleVars, dependencyVars, reportVars>>
    \/ CompleteCreateResult
         /\ UNCHANGED <<levelVars, scorerVars, engineVars, serviceVars, peerVars,
                        percentileVars, gapVars, planVars, roadmapVars, lifecycleVars, dependencyVars, reportVars>>

InitSelfService ==
    /\ InitSession /\ IdleLevel /\ IdleScorer /\ IdleEngine /\ IdleService
    /\ IdlePeer /\ IdlePercentile /\ IdleGap /\ IdlePlan /\ IdleRoadmap /\ IdleLifecycle
    /\ IdleDependencies
    /\ IdleReports

\* Answers submitted and complete_assessment called for one session, the
\* calls interleaving at their database operations.
SpecSession == InitSelfService /\ [][NextSession]_vars

NextDependencies ==
    \/ IdentifyDependencies
         /\ UNCHANGED <<levelVars, scorerVars, engineVars, serviceVars, peerVars,
                        percentileVars, gapVars, planVars, roadmapVars, lifecycleVars,
                        sessionVars, reportVars>>

InitDependencyGraph ==
    /\ InitDependencies /\ IdleLevel /\ IdleScorer /\ IdleEngine /\ IdleService
    /\ IdlePeer /\ IdlePercentile /\ IdleGap /\ IdlePlan /\ IdleRoadmap /\ IdleLifecycle
    /\ IdleSession
    /\ IdleReports

\* identify_dependencies applied to every list of up to MaxDependencyActions
\* actions.
SpecDependencies == InitDependencyGraph /\ [][NextDependencies]_vars

NextReports ==
    \/ ReportStart
         /\ UNCHANGED <<levelVars, scorerVars, engineVars, serviceVars, peerVars,
                        percentileVars, gapVars, planVars, roadmapVars, lifecycleVars,
                        sessionVars, dependencyVars>>
    \/ ReportGetAssessment
         /\ UNCHANGED <<levelVars, scorerVars, engineVars, serviceVars, peerVars,
                        percentileVars, gapVars, planVars, roadmapVars, lifecycleVars,
                        sessionVars, dependencyVars>>
    \/ ReportCreate
         /\ UNCHANGED <<levelVars, scorerVars, engineVars, serviceVars, peerVars,
                        percentileVars, gapVars, planVars, roadmapVars, lifecycleVars,
                        sessionVars, dependencyVars>>
    \/ ReportLoadBenchmark
         /\ UNCHANGED <<levelVars, scorerVars, engineVars, serviceVars, peerVars,
                        percentileVars, gapVars, planVars, roadmapVars, lifecycleVars,
                        sessionVars, dependencyVars>>
    \/ ReportLoadRoadmap
         /\ UNCHANGED <<levelVars, scorerVars, engineVars, serviceVars, peerVars,
                        percentileVars, gapVars, planVars, roadmapVars, lifecycleVars,
                        sessionVars, dependencyVars>>
    \/ ReportGenerate
         /\ UNCHANGED <<levelVars, scorerVars, engineVars, serviceVars, peerVars,
                        percentileVars, gapVars, planVars, roadmapVars, lifecycleVars,
                        sessionVars, dependencyVars>>
    \/ ReportMarkReady
         /\ UNCHANGED <<levelVars, scorerVars, engineVars, serviceVars, peerVars,
                        percentileVars, gapVars, planVars, roadmapVars, lifecycleVars,
                        sessionVars, dependencyVars>>
    \/ ReportPublish
         /\ UNCHANGED <<levelVars, scorerVars, engineVars, serviceVars, peerVars,
                        percentileVars, gapVars, planVars, roadmapVars, lifecycleVars,
                        sessionVars, dependencyVars>>
    \/ ReportMarkFailed
         /\ UNCHANGED <<levelVars, scorerVars, engineVars, serviceVars, peerVars,
                        percentileVars, gapVars, planVars, roadmapVars, lifecycleVars,
                        sessionVars, dependencyVars>>

InitReportGeneration ==
    /\ InitReports /\ IdleLevel /\ IdleScorer /\ IdleEngine /\ IdleService
    /\ IdlePeer /\ IdlePercentile /\ IdleGap /\ IdlePlan /\ IdleRoadmap /\ IdleLifecycle
    /\ IdleSession /\ IdleDependencies

\* generate_report called up to MaxReportCalls times on one assessment, the
\* calls interleaving at their awaited operations.
SpecReport == InitReportGeneration /\ [][NextReports]_vars

\* The band of a score as the documentation states it: lower bounds inclusive.
DocumentedBand(s) ==
    CASE s >= Pts(80) -> 5
      [] s >= Pts(60) /\ s < Pts(80) -> 4
      [] s >= Pts(40) /\ s < Pts(60) -> 3
      [] s >= Pts(20) /\ s < Pts(40) -> 2
      [] OTHER -> 1

AllAnswered(sheet, a) ==
    /\ DOMAIN sheet = BankIds
    /\ \A q \in BankIds : sheet[q] = a

\* C2: when every question of the bank is answered with the same Likert value
\* a, score_assessment yields overall_score = (a - 1) * 25; all 1 give 0.0
\* and level 1, all 3 give 50.0 and level 3, all 5 give 100.0 and level 5.
C2_GridExact ==
    \A r \in scorer_result : \A a \in 1 .. 5 :
        AllAnswered(answers, a) =>
            /\ r.overall_score = (a - 1) * Pts(25)
            /\ a = 1 => r.overall_score = Pts(0) /\ r.maturity_level = 1
            /\ a = 3 => r.overall_score = Pts(50) /\ r.maturity_level = 3
            /\ a = 5 => r.overall_score = Pts(100) /\ r.maturity_level = 5

\* C2 witness: the sheet with every answer 3 has been scored 50.0, level 3.
C2_Witness ==
    /\ AllAnswered(answers, 3)
    /\ \E r \in scorer_result : r.overall_score = Pts(50) /\ r.maturity_level = 3

\* The sheets that replace every answer of a sheet by a strictly larger
\* Likert value: every such sheet when the sheet is small, and the sheets that
\* raise all answers by the same amount when it is not.
RaisedSheets(sheet) ==
    IF Cardinality(DOMAIN sheet) <= MaxAnswered + 1
    THEN { b \in [DOMAIN sheet -> 1 .. 5] : \A q \in DOMAIN sheet : b[q] > sheet[q] }
    ELSE { [q \in DOMAIN sheet |-> sheet[q] + k] :
             k \in { j \in 1 .. 4 : \A q \in DOMAIN sheet : sheet[q] + j <= 5 } }

\* C3: for a dimension with at least one answered question (all bank weights
\* are positive), replacing every answer by a strictly larger Likert value
\* strictly increases the value score_dimension returns.
C3_DimensionMonotone ==
    \A r \in scorer_result : \A d \in DimensionSet :
        DimensionAnswers(answers, d) # {} =>
            \A b \in RaisedSheets(answers) :
                score_dimension(b, d) > r.dimension_scores[d]

\* C3 witness: a scored sheet with two different answers in one dimension,
\* all of which can still be raised.
C3_Witness ==
    /\ scorer_result # {}
    /\ \E d \in DimensionSet : \E q1, q2 \in DimensionAnswers(answers, d) :
            answers[q1] < answers[q2]
    /\ RaisedSheets(answers) # {}

\* C4: compute_scores gives 0.0 to every dimension without responses or whose
\* responses have total weight 0, and score_dimension gives 0.0 to a
\* dimension without answers (no division by zero: the result exists).
C4_SparseIsZero ==
    /\ \A r \in engine_result : \A d \in EngineDimensions :
            LET at == DimResponses(responses, d)
            IN  (at = {} \/ SumAt(at, [i \in at |-> ResponseWeight(responses[i])]) = 0)
                    => r.dimension_scores[d] = 0
    /\ \A r \in scorer_result : \A d \in DimensionSet :
            DimensionAnswers(answers, d) = {} => r.dimension_scores[d] = 0

\* C4 witness: compute_scores has scored a dimension whose responses carry a
\* positive score and total weight 0, next to a dimension with a positive
\* score, and one without responses.
C4_Witness ==
    \E r \in engine_result :
        /\ \E d \in EngineDimensions :
              LET at == DimResponses(responses, d)
              IN  /\ at # {}
                  /\ \A i \in at : ResponseWeight(responses[i]) = 0
                                   /\ ResponseScore(responses[i]) > 0
        /\ \E d \in EngineDimensions : r.dimension_scores[d] > 0
        /\ \E d \in EngineDimensions : DimResponses(responses, d) = {}
\* A weight set whose sum is within 0.001 of 1.0.
SumsToOne(weights) ==
    /\ WeightSum(weights) >= Wt(100) - 10
    /\ WeightSum(weights) <= Wt(100) + 10

\* Every weight set the services have accepted: the weights stored with an
\* assessment and the weights a call has returned.
C5_AcceptedSumToOne ==
    /\ \A i \in 1..Len(assessments) : SumsToOne(assessments[i].dimension_weights)
    /\ last_call.op = "create_assessment" /\ last_call.outcome = "created"
          => SumsToOne(last_call.dimension_weights)
    /\ last_call.op = "resolve_dimension_weights"
          => \/ last_call.outcome \in {"ValueError", "NotFoundError"}
             \/ last_call.outcome = "returned" /\ SumsToOne(last_call.result)

\* A call of create_assessment with weights that do not sum to 1.0 raises
\* ConflictError, stores no assessment and publishes no event.
C5_BadSumRejected ==
    (last_call' # last_call /\ last_call'.op = "create_assessment"
        /\ ~SumsToOne(last_call'.dimension_weights))
    => /\ last_call'.outcome = "ConflictError"
       /\ UNCHANGED <<assessments, published>>

ExactTier ==
    { i \in DOMAIN available_benchmarks :
        /\ available_benchmarks[i].industry = PeerIndustry
        /\ available_benchmarks[i].organization_size = PeerOrganizationSize }
IndustryTier ==
    { i \in DOMAIN available_benchmarks : available_benchmarks[i].industry = PeerIndustry }
GlobalTier == DOMAIN available_benchmarks

\* The selected benchmark is one of largest sample size within a tier.
LargestOf(tier, g) ==
    /\ g.selected_index \in tier
    /\ \A i \in tier :
          available_benchmarks[i].sample_size
            <= available_benchmarks[g.selected_index].sample_size

\* C6: three-tier peer group fallback.  select_peer_group returns 'exact'
\* exactly when some benchmark matches industry and organization size with
\* sample_size >= peer_group_min_size; otherwise 'industry_only' exactly when
\* some benchmark matches the industry; otherwise 'global_fallback' exactly
\* when the list is not empty; otherwise 'none' with no benchmark selected.
\* In the first three cases the selected benchmark is one of largest sample
\* size within its tier.
C6_ThreeTierFallback ==
    \A g \in peer_group :
        LET exact == \E i \in ExactTier :
                        available_benchmarks[i].sample_size >= peer_group_min_size
        IN  IF exact
            THEN g.match_quality = "exact" /\ LargestOf(ExactTier, g)
            ELSE IF IndustryTier # {}
            THEN g.match_quality = "industry_only" /\ LargestOf(IndustryTier, g)
            ELSE IF GlobalTier # {}
            THEN g.match_quality = "global_fallback" /\ LargestOf(GlobalTier, g)
            ELSE g.match_quality = "none" /\ g.selected_index = 0

\* Reached: two benchmarks of the organization's industry and size, the
\* first with 5 samples and the second with 50, and the peer group selected
\* is the industry-only one.
C6_SmallFirstExactMatch ==
    /\ Len(available_benchmarks) = 2
    /\ ExactTier = {1, 2}
    /\ available_benchmarks[1].sample_size = 5
    /\ available_benchmarks[2].sample_size = 50
    /\ \E g \in peer_group : g.match_quality = "industry_only"

\* p25 <= p50 <= p75 <= p90.
NonDecreasing(q) == q.p25 <= q.p50 /\ q.p50 <= q.p75 /\ q.p75 <= q.p90

\* The comparator ranked the score at percentile p, the scorer ranked the
\* score at percentile p.
ComparatorRanks(p) == \A f \in comparator_percentile : f.num = p * f.den
ScorerRanks(p) == \A v \in scorer_percentile : v = Pts(p)

\* The statement of C7 as the specification words it: every score equal to
\* a quantile is ranked at the percentile of that quantile.
C7_FixedPointsAsStated ==
    NonDecreasing(quantiles) =>
        /\ ranked_score = quantiles.p25 => ComparatorRanks(25) /\ ScorerRanks(25)
        /\ ranked_score = quantiles.p50 => ComparatorRanks(50) /\ ScorerRanks(50)
        /\ ranked_score = quantiles.p75 => ComparatorRanks(75) /\ ScorerRanks(75)

\* The percentile of the lowest of p25, p50, p75 the score equals; a p25 of 0
\* ranks at 0.
LowestFixedPoint(score, q) ==
    IF score = q.p25 THEN (IF q.p25 > 0 THEN 25 ELSE 0)
    ELSE IF score = q.p50 THEN 50
    ELSE 75

\* C7: percentile interpolation fixed points.  For non-decreasing quantiles
\* (p25 <= p50 <= p75 <= p90, values in 0..100) both _interpolate_percentile
\* and compute_peer_percentile rank a score equal to one of p25, p50, p75 at
\* the percentile of the LOWEST quantile it equals: 25 for p25, 50 for a p50
\* above p25, 75 for a p75 above p50; a score equal to a p25 of 0 is ranked
\* at 0.
C7_FixedPoints ==
    (NonDecreasing(quantiles)
        /\ ranked_score \in {quantiles.p25, quantiles.p50, quantiles.p75})
    => /\ ComparatorRanks(LowestFixedPoint(ranked_score, quantiles))
       /\ ScorerRanks(LowestFixedPoint(ranked_score, quantiles))

\* Reached: strictly increasing quantiles above 0, a score equal to p50, and
\* both estimators have ranked it at 50.
C7_Witness ==
    /\ 0 < quantiles.p25 /\ quantiles.p25 < quantiles.p50
    /\ quantiles.p50 < quantiles.p75 /\ quantiles.p75 < quantiles.p90
    /\ ranked_score = quantiles.p50
    /\ comparator_percentile # {} /\ ComparatorRanks(50)
    /\ scorer_percentile # {} /\ ScorerRanks(50)

\* The best-in-class score of a dimension: its p90, else overall_p90, else
\* 80.0; and its current score, 0.0 when it has none.
BestInClass(d) ==
    IF (d \o "_p90") \in DOMAIN gap_benchmark THEN gap_benchmark[d \o "_p90"]
    ELSE IF "overall_p90" \in DOMAIN gap_benchmark THEN gap_benchmark["overall_p90"]
    ELSE Pts(80)
CurrentScore(d) ==
    IF d \in DOMAIN assessment_scores THEN assessment_scores[d] ELSE Pts(0)

\* The difference of best-in-class and current score, floored at 0.
ExactGap(d) ==
    IF BestInClass(d) > CurrentScore(d) THEN BestInClass(d) - CurrentScore(d) ELSE 0

\* The nearest hundredth of a point, ties to the even one.
NearestHundredth(x) ==
    LET lo == (x \div 10) * 10
    IN  IF x - lo < 5 THEN lo
        ELSE IF x - lo > 5 THEN lo + 10
        ELSE IF (lo \div 10) % 2 = 0 THEN lo ELSE lo + 10

\* One entry per dimension, sorted by gap_size in non-increasing order.
OnePerDimensionSorted(gaps) ==
    /\ Len(gaps) = Cardinality(EngineDimensions)
    /\ \A d \in EngineDimensions :
          Cardinality({ i \in DOMAIN gaps : gaps[i].dimension = d }) = 1
    /\ \A i \in 1..(Len(gaps) - 1) : gaps[i].gap_size >= gaps[i + 1].gap_size

\* The statement of C8 as the specification words it: every gap_size is the
\* difference max(0, best_in_class - score) itself.
C8_GapAsStated ==
    \A gaps \in gap_analysis :
        /\ OnePerDimensionSorted(gaps)
        /\ \A i \in DOMAIN gaps :
              gaps[i].gap_size = ExactGap(gaps[i].dimension) /\ gaps[i].gap_size >= 0

\* C8: gap non-negativity and order.  analyze_gap_vs_best_in_class returns
\* exactly one entry per dimension with gap_size = max(0, best_in_class_score
\* - current score) ROUNDED TO 2 DECIMALS, >= 0 (best-in-class being the p90
\* of the dimension, falling back to overall_p90 and then to 80.0), and the
\* list is sorted by gap_size in non-increasing order.
C8_GapNonNegativeSorted ==
    \A gaps \in gap_analysis :
        /\ OnePerDimensionSorted(gaps)
        /\ \A i \in DOMAIN gaps :
              /\ gaps[i].gap_size = NearestHundredth(ExactGap(gaps[i].dimension))
              /\ gaps[i].gap_size >= 0

\* Reached: a data score above its best-in-class score (gap 0), a process
\* gap of 30 against its p90 and a people gap of 20 against overall_p90; the
\* list starts with process and ends with data.
C8_Witness ==
    /\ "data_p90" \in DOMAIN gap_benchmark
    /\ CurrentScore("data") > BestInClass("data")
    /\ \E gaps \in gap_analysis :
          /\ gaps[1].dimension = "process" /\ gaps[1].gap_size = Pts(30)
          /\ \E i \in DOMAIN gaps :
                gaps[i].dimension = "people" /\ gaps[i].gap_size = Pts(20)
          /\ gaps[Len(gaps)].dimension = "data" /\ gaps[Len(gaps)].gap_size = 0

\* The tier of a reported gap, lower bounds inclusive.
SeverityTier(gap_size) ==
    IF gap_size >= Pts(30) THEN "critical"
    ELSE IF gap_size >= Pts(20) THEN "high"
    ELSE IF gap_size >= Pts(10) THEN "medium"
    ELSE "low"

\* C9: gap severity tiers.  Every gap entry is labelled 'critical' if its
\* gap_size >= 30, 'high' if 20 <= gap_size < 30, 'medium' if 10 <= gap_size
\* < 20 and 'low' if gap_size < 10, each lower bound inclusive.
C9_SeverityTiers ==
    \A gaps \in gap_analysis :
        \A i \in DOMAIN gaps : gaps[i].severity = SeverityTier(gaps[i].gap_size)

\* Reached: a data p90 of 79.996 against a data score of 50: the entry
\* reports a gap_size of 30.0 and the severity 'high'.
C9_RoundedUpGap ==
    /\ BestInClass("data") = 79996
    /\ CurrentScore("data") = Pts(50)
    /\ \E gaps \in gap_analysis :
          \E i \in DOMAIN gaps :
              /\ gaps[i].dimension = "data"
              /\ gaps[i].gap_size = Pts(30)
              /\ gaps[i].severity = "high"

\* The case of the example: data_p90 = 80 and a current data score of 50.
ExampleCase ==
    /\ "data_p90" \in DOMAIN gap_benchmark
    /\ gap_benchmark["data_p90"] = Pts(80)
    /\ CurrentScore("data") = Pts(50)

\* The statement of C10 as the specification words it: the gap of 30 is
\* labelled 'high'.
C10_ExampleAsStated ==
    ExampleCase =>
        \A gaps \in gap_analysis :
            \A i \in DOMAIN gaps :
                gaps[i].dimension = "data"
                  => gaps[i].gap_size = Pts(30) /\ gaps[i].severity = "high"

\* C10: end-to-end gap example.  For a benchmark with data_p90 = 80 and a
\* current data score of 50, analyze_gap_vs_best_in_class reports for the
\* data dimension gap_size = 30 and severity 'critical'.
C10_Example ==
    ExampleCase =>
        \A gaps \in gap_analysis :
            \A i \in DOMAIN gaps :
                gaps[i].dimension = "data"
                  => gaps[i].gap_size = Pts(30) /\ gaps[i].severity = "critical"

\* Reached: the example's benchmark and score, analysed.
C10_Witness ==
    /\ ExampleCase
    /\ \E gaps \in gap_analysis :
          \E i \in DOMAIN gaps :
              gaps[i].dimension = "data" /\ gaps[i].severity = "critical"

\* C11: priority ranking.  score_improvement_priorities returns one entry
\* per input gap entry, ordered by non-increasing priority_score (the impact
\* min(1, gap / 40) over max(effort, 0.1), rounded to 4 decimals), and the
\* k-th entry carries priority_rank = k, so the ranks are exactly 1..n.
C11_PriorityRanking ==
    \A ranked \in priorities : \A gaps \in gap_analysis :
        /\ Len(ranked) = Len(gaps)
        /\ \A i \in DOMAIN gaps :
              Cardinality({ k \in DOMAIN ranked :
                              /\ ranked[k].dimension = gaps[i].dimension
                              /\ ranked[k].gap_size = gaps[i].gap_size }) = 1
        /\ \A k \in DOMAIN ranked :
              /\ ranked[k].priority_rank = k
              /\ LET effort == difficulty_weights[ranked[k].dimension]
                                 * (10000 - CurrentScore(ranked[k].dimension) \div 10)
                      floored == IF effort > 10000 THEN effort ELSE 10000
                      impact == IF ranked[k].gap_size > Pts(40) THEN 4000
                                ELSE ranked[k].gap_size \div 10
                  IN  \* the nearest ten-thousandth of impact / max(effort, 0.1)
                      /\ 2 * (ranked[k].priority_score * floored - impact * 250000)
                            <= floored
                      /\ 2 * (impact * 250000 - ranked[k].priority_score * floored)
                            <= floored
        /\ \A k \in 1..(Len(ranked) - 1) :
              ranked[k].priority_score >= ranked[k + 1].priority_score

\* Reached: the gap analysis starts with data (gap 30); the priorities
\* start with process, and technology, with a smaller gap than data but
\* less effort, is ranked second, before data.
C11_Witness ==
    \E ranked \in priorities : \E gaps \in gap_analysis :
        /\ gaps[1].dimension = "data" /\ gaps[1].gap_size = Pts(30)
        /\ ranked[1].dimension = "process"
        /\ ranked[2].dimension = "technology" /\ ranked[2].priority_rank = 2
        /\ ranked[3].dimension = "data" /\ ranked[3].priority_rank = 3
        /\ ranked[2].gap_size < ranked[3].gap_size
        /\ ranked[2].priority_score > ranked[3].priority_score

\* The (dependent dimension, prerequisite dimension) pairs of
\* DIMENSION_DEPENDENCIES.
DependencyPairs ==
    { <<"process", "data">>, <<"technology", "data">>, <<"governance", "process">> }

\* C12: scheduling causality.  In the timeline generate_timeline produces
\* from a priority sequence, for every (dependent dimension D, prerequisite
\* dimension P) pair and every action a of P that precedes an action b of D
\* in the sequence, end_week(a) <= start_week(b); otherwise a
\* dependency_violation warning for (D, P) was emitted by
\* sequence_by_priority for that sequence.
C12_SchedulingCausality ==
    \A q \in sequenced : \A t \in timeline :
        t.outcome = "returned" =>
            \A pair \in DependencyPairs :
                \/ \A a, b \in DOMAIN t.timeline_entries :
                       (/\ a < b
                        /\ q.sequenced_actions[a].dimension = pair[2]
                        /\ q.sequenced_actions[b].dimension = pair[1])
                       => t.timeline_entries[a].end_week <= t.timeline_entries[b].start_week
                \/ \E w \in q.dependency_warnings :
                       /\ w.warning_type = "dependency_violation"
                       /\ w.dimension = pair[1]
                       /\ w.prerequisite_dimension = pair[2]

\* Reached: two streams, a data action of 3 weeks sequenced before a process
\* action, no warning, and the process action starts in week 3 although a
\* stream was free from week 0.
C12_Witness ==
    /\ parallel_streams = 2
    /\ \E q \in sequenced : \E t \in timeline :
          /\ q.dependency_warnings = {}
          /\ t.outcome = "returned"
          /\ Len(t.timeline_entries) >= 2
          /\ t.timeline_entries[1].dimension = "data"
          /\ t.timeline_entries[1].end_week = Weeks(3)
          /\ t.timeline_entries[2].dimension = "process"
          /\ t.timeline_entries[2].start_week = Weeks(3)

\* C13: scheduling edge cases do not fail.  generate_timeline called with
\* parallel_streams = 0 (for any list of actions, a non-empty one included)
\* or with an empty action list returns an empty timeline instead of raising.
C13_EdgeCasesDoNotFail ==
    \A q \in sequenced : \A t \in timeline :
        (parallel_streams = 0 \/ q.sequenced_actions = << >>)
        => t.outcome = "returned" /\ t.timeline_entries = << >>

\* Reached: generate_timeline was called with parallel_streams = 0 on a
\* non-empty list of actions and raised IndexError.
C13_ZeroStreamsRaises ==
    /\ parallel_streams = 0
    /\ \E q \in sequenced : q.sequenced_actions # << >>
    /\ \E t \in timeline : t.outcome = "IndexError"

\* C16: milestone cadence.  define_milestones emits checkpoints only at
\* weeks 8, 16, 24, ... (positive multiples of 8) in strictly increasing
\* order, and the week of the last checkpoint does not exceed
\* horizon_months * 4.33 + 8.
C16_MilestoneCadence ==
    \A m \in milestones :
        /\ \A k \in DOMAIN m.milestones :
              /\ m.milestones[k].week > 0
              /\ m.milestones[k].week % 8 = 0
              /\ k > 1 => m.milestones[k - 1].week < m.milestones[k].week
        /\ m.milestones # << >> =>
              100 * m.milestones[Len(m.milestones)].week <= horizon_months * 433 + 800

\* Reached: a horizon of 3 months (12.99 weeks) and a timeline whose last
\* action ends in week 16 or later: checkpoints at weeks 8 and 16, the last
\* one beyond the horizon because actions complete before it.
C16_Witness ==
    /\ horizon_months = 3
    /\ \E m \in milestones :
          /\ Len(m.milestones) = 2
          /\ m.milestones[1].week = 8
          /\ m.milestones[2].week = 16
          /\ m.milestones[2].actions_completed # << >>

\* C14: unknown-dimension lookups are hard errors.  get_roadmap_items_for_dimension
\* raises ValueError for a dimension that is not a key of ROADMAP_MAPPINGS,
\* and map_gaps_to_actions raises for a named dimension of positive gap that
\* is not a key of its action library.
C14_UnknownDimensionRaises ==
    /\ \A r \in roadmap_items :
          lookup_dimension \notin DOMAIN ROADMAP_MAPPINGS => r.outcome = "ValueError"
    /\ \A a \in action_map :
          ( /\ gap_argument.kind = "dict"
            /\ "dimension_gaps" \in DOMAIN gap_argument.value
            /\ \E k \in DOMAIN gap_argument.value.dimension_gaps :
                  LET item == gap_argument.value.dimension_gaps[k]
                  IN  /\ item.dimension # ""
                      /\ item.dimension \notin DOMAIN ACTION_LIBRARY
                      /\ item.gap_to_best_in_class > 0 )
          => a.outcome # "returned"

\* Reached: map_gaps_to_actions, given one gap of 25 points in a dimension
\* its library does not have, returns an empty action list.
C14_UnknownGapYieldsNoActions ==
    /\ gap_argument =
          [ kind |-> "dict",
            value |-> [ dimension_gaps |->
                << [ dimension |-> "agentic_ai", gap_to_best_in_class |-> Pts(25) ] >> ] ]
    /\ \E a \in action_map :
          /\ a.outcome = "returned"
          /\ a.actions = << >>
          /\ a.dimensions_addressed = {}

\* C15: end-to-end pipeline.  The entries of analyze_gap_vs_best_in_class,
\* handed unchanged to generate_detailed_roadmap with a horizon of 12 months
\* and 2 parallel streams, give a roadmap; when data scores 50 against a
\* data_p90 of 80 the roadmap has actions and its dimension_summary counts at
\* least one action for data.
C15_PipelineYieldsDataActions ==
    \A r \in detailed_roadmap :
        (gap_feed = "unchanged" /\ horizon_months = 12 /\ parallel_streams = 2) =>
            /\ r.outcome = "returned"
            /\ ( /\ Get(assessment_scores, "data", Pts(0)) = Pts(50)
                 /\ "data" \in DOMAIN assessment_scores
                 /\ Get(gap_benchmark, "data_p90", Pts(0)) = Pts(80) )
               => /\ r.total_actions >= 1
                  /\ "data" \in DOMAIN r.dimension_summary
                  /\ r.dimension_summary["data"].action_count >= 1

\* Reached: data scores 50 against a data_p90 of 80, the gap analysis holds
\* an entry of 30 points for data, and generate_detailed_roadmap, given the
\* entries unchanged with 12 months and 2 streams, ends in AttributeError.
C15_UnchangedEntriesRaise ==
    /\ gap_feed = "unchanged" /\ horizon_months = 12 /\ parallel_streams = 2
    /\ Get(assessment_scores, "data", Pts(0)) = Pts(50)
    /\ Get(gap_benchmark, "data_p90", Pts(0)) = Pts(80)
    /\ \E g \in gap_analysis :
          \E k \in DOMAIN g : g[k].dimension = "data" /\ g[k].gap_size = Pts(30)
    /\ \E r \in detailed_roadmap : r.outcome = "AttributeError"

\* C17: score immutability.  A score_assessment call made by the owning
\* tenant while the assessment's status is 'completed' raises ConflictError
\* at once and leaves the row (scores, maturity level, status) as it is: it
\* does not invoke the scoring engine, does not call update_scores and
\* publishes no maturity.assessment.completed event.
C17_ScoreImmutability ==
    [][ \A c \in DOMAIN score_calls :
           ( /\ score_calls[c].pc = "idle"
             /\ score_calls'[c].pc # "idle"
             /\ score_calls'[c].tenant_id = assessment_row.tenant_id
             /\ assessment_row.status = "completed" )
           => /\ score_calls'[c].pc = "done"
              /\ score_calls'[c].outcome = "ConflictError"
              /\ assessment_row' = assessment_row
              /\ engine_invocations' = engine_invocations
              /\ update_scores_calls' = update_scores_calls
              /\ completed_events' = completed_events ]_vars

\* Reached: the assessment was scored once, and a call made afterwards by
\* its tenant has ended in ConflictError.
C17_Witness ==
    /\ assessment_row.status = "completed"
    /\ assessment_row.scores # {}
    /\ engine_invocations = 1
    /\ update_scores_calls = 1
    /\ Len(completed_events) = 1
    /\ \E c \in DOMAIN score_calls :
          /\ score_calls[c].after_completion
          /\ score_calls[c].tenant_id = assessment_row.tenant_id
          /\ score_calls[c].pc = "done"
          /\ score_calls[c].outcome = "ConflictError"

\* C18: a self-service session is completed at most once.  Whatever answers
\* are submitted and however often complete_assessment is called, the
\* session never has more than one result record, and a complete_assessment
\* call made when a result exists has raised AssessmentAlreadyCompletedError
\* and gone no further.
C18_CompletedAtMostOnce ==
    /\ Len(result_records) <= 1
    /\ \A c \in DOMAIN complete_calls :
          complete_calls[c].after_result =>
              /\ complete_calls[c].pc = "done"
              /\ complete_calls[c].outcome = "AssessmentAlreadyCompletedError"

\* Reached: the session has its result, one call returned it, and a call
\* made afterwards has ended in AssessmentAlreadyCompletedError.
C18_Witness ==
    /\ Len(result_records) = 1
    /\ \E c \in DOMAIN complete_calls : complete_calls[c].outcome = "returned"
    /\ \E c \in DOMAIN complete_calls :
          /\ complete_calls[c].after_result
          /\ complete_calls[c].outcome = "AssessmentAlreadyCompletedError"

\* The band of a score as the scorer's test and docstring state it: level 1
\* up to 20 (the test includes 20.9), level 2 from 21, level 3 from 41,
\* level 4 from 61 and level 5 from 81.
TestedBand(s) ==
    IF s < Pts(21) THEN 1
    ELSE IF s < Pts(41) THEN 2
    ELSE IF s < Pts(61) THEN 3
    ELSE IF s < Pts(81) THEN 4
    ELSE 5

\* C19: AssessmentScorer.compute_maturity_level maps 0-20 to level 1, 21-40
\* to level 2, 41-60 to level 3, 61-80 to level 4 and 81-100 to level 5, so
\* exactly 20, 40, 60 and 80 map to levels 1, 2, 3 and 4.
C19_TestedBands ==
    scorer_level # 0 => scorer_level = TestedBand(overall_score)

\* Reached: compute_maturity_level has put a score of exactly 20 at level 2.
C19_TwentyIsLevelTwo ==
    /\ overall_score = Pts(20)
    /\ scorer_level = 2

\* The overall score over every dimension of the weights handed in: the sum
\* of weighted mean times weight, rounded to 2 decimals.
ConfiguredOverall(resp, weights) ==
    Round2(SumOver(DOMAIN weights,
                   [d \in DOMAIN weights |-> engine_dimension_score(resp, d) * weights[d]]),
           Wt(100))

\* C20: compute_scores returns as overall_score the sum, over every
\* dimension of the dimension_weights it is given, of the dimension's
\* weighted mean times its weight, rounded to 2 decimals; with
\* SIX_DIMENSION_WEIGHTS and every dimension at 100 the overall score is 100.
C20_OverallCoversConfigured ==
    \A r \in engine_result :
        r.overall_score = ConfiguredOverall(responses, dimension_weights)

\* Reached: SIX_DIMENSION_WEIGHTS and a response of 100 in each of its six
\* dimensions give an overall score of 90.
C20_SixDimensionsGiveNinety ==
    /\ dimension_weights = SIX_DIMENSION_WEIGHTS
    /\ responses = FullMarkResponses
    /\ ConfiguredOverall(responses, dimension_weights) = Pts(100)
    /\ \E r \in engine_result : r.overall_score = Pts(90)

\* The cursor of a stream before entry k is made: the end week of the last
\* earlier entry on the stream, week 0 when there is none.
CursorBefore(entries, k, s) ==
    LET prior == { j \in 1 .. (k - 1) : entries[j].stream = s }
    IN  IF prior = {} THEN 0
        ELSE entries[CHOOSE j \in prior : \A i \in prior : i <= j].end_week

\* The earliest permissible start of entry k: the largest end week of the
\* earlier entries of the dimensions its dimension depends on.
FloorBefore(entries, k) ==
    LET before == { j \in 1 .. (k - 1) :
                      <<entries[k].dimension, entries[j].dimension>> \in DependencyPairs }
    IN  IF before = {} THEN 0
        ELSE entries[CHOOSE j \in before :
                        \A i \in before : entries[i].end_week <= entries[j].end_week].end_week

\* The start week entry k gets on stream s.
StartOn(entries, k, s) == Max(CursorBefore(entries, k, s), FloorBefore(entries, k))

\* C21: greedy stream assignment.  generate_timeline takes the actions in the
\* given order and puts each on the stream whose max(cursor, earliest
\* permissible start) is smallest, the lowest stream on ties; the entry starts
\* in that week and ends effort_weeks later, and the cursors are the end
\* weeks of the last entries of the streams.
C21_GreedyStreams ==
    \A q \in sequenced : \A t \in timeline :
        t.outcome = "returned" =>
            /\ Len(t.timeline_entries) = Len(q.sequenced_actions)
            /\ \A k \in DOMAIN t.timeline_entries :
                  LET entries == t.timeline_entries
                      e == entries[k]
                  IN  /\ e.action_id = q.sequenced_actions[k].id
                      /\ e.stream \in 1 .. parallel_streams
                      /\ \A s \in 1 .. parallel_streams :
                            \/ StartOn(entries, k, e.stream) < StartOn(entries, k, s)
                            \/ /\ StartOn(entries, k, e.stream) = StartOn(entries, k, s)
                               /\ e.stream <= s
                      /\ e.start_week = StartOn(entries, k, e.stream)
                      /\ e.end_week = e.start_week + Weeks(q.sequenced_actions[k].effort_weeks)

\* Reached: two streams and three actions; the first goes to stream 1 on a
\* tie, the second to stream 2, and the third to the stream that is free
\* first, starting after week 0.
C21_Witness ==
    /\ parallel_streams = 2
    /\ \E t \in timeline :
          /\ t.outcome = "returned"
          /\ Len(t.timeline_entries) = 3
          /\ t.timeline_entries[1].stream = 1
          /\ t.timeline_entries[2].stream = 2
          /\ t.timeline_entries[2].start_week = 0
          /\ t.timeline_entries[3].stream = 2
          /\ t.timeline_entries[3].start_week > 0
          /\ t.timeline_entries[1].end_week > t.timeline_entries[2].end_week

\* The positions of the actions of a dimension in a sequence.
PositionsOf(actions, dimension) ==
    { i \in DOMAIN actions : actions[i].dimension = dimension }

\* C22: dependency-order warnings.  sequence_by_priority emits a
\* dependency_violation warning for a (dependent D, prerequisite P) pair of
\* the prerequisite table exactly when both dimensions have actions and some
\* action of D comes earlier in the sequenced list than every action of P;
\* it emits no other warning.
C22_DependencyWarnings ==
    \A q \in sequenced :
        /\ \A pair \in DependencyPairs :
              LET of_d == PositionsOf(q.sequenced_actions, pair[1])
                  of_p == PositionsOf(q.sequenced_actions, pair[2])
              IN  ( \E w \in q.dependency_warnings :
                       /\ w.dimension = pair[1]
                       /\ w.prerequisite_dimension = pair[2] )
                  <=> ( /\ of_d # {}
                        /\ of_p # {}
                        /\ \E a \in of_d : \A b \in of_p : a < b )
        /\ \A w \in q.dependency_warnings :
              /\ w.warning_type = "dependency_violation"
              /\ <<w.dimension, w.prerequisite_dimension>> \in DependencyPairs

\* Reached: a governance quick win, then a process action, then another
\* governance action; the warning for (governance, process) is the only one.
C22_Witness ==
    \E q \in sequenced :
        /\ Len(q.sequenced_actions) = 3
        /\ q.sequenced_actions[1].dimension = "governance"
        /\ q.sequenced_actions[2].dimension = "process"
        /\ q.sequenced_actions[3].dimension = "governance"
        /\ q.dependency_warnings =
              { [ warning_type |-> "dependency_violation", dimension |-> "governance",
                  prerequisite_dimension |-> "process" ] }

\* The dimensions of a gap analysis dict that have an item of positive gap
\* and templates in the action library.
PositiveGapDimensions(arg) ==
    IF arg.kind # "dict" \/ "dimension_gaps" \notin DOMAIN arg.value THEN {}
    ELSE { arg.value.dimension_gaps[k].dimension :
             k \in { j \in DOMAIN arg.value.dimension_gaps :
                       /\ arg.value.dimension_gaps[j].dimension \in DOMAIN ACTION_LIBRARY
                       /\ arg.value.dimension_gaps[j].gap_to_best_in_class > 0 } }

\* An action made from template t of dimension d is among the actions.
TemplateKept(actions, d, t) ==
    \E k \in DOMAIN actions :
        /\ actions[k].dimension = d
        /\ actions[k].effort_weeks = t.effort_weeks
        /\ actions[k].impact_score = t.impact_score
        /\ actions[k].phase = t.phase

\* C23: horizon filter.  While the action cap is not reached,
\* map_gaps_to_actions drops a template of a positive-gap dimension exactly
\* when its effort_weeks exceeds horizon_months * 4.33 weeks and its phase is
\* not quick_wins.
C23_HorizonFilter ==
    \A a \in action_map :
        (a.outcome = "returned" /\ a.total_actions_count < initiative_cap) =>
            \A d \in PositiveGapDimensions(gap_argument) :
                \A i \in DOMAIN ACTION_LIBRARY[d] :
                    LET t == ACTION_LIBRARY[d][i]
                    IN  TemplateKept(a.actions, d, t)
                        <=> ~( /\ t.effort_weeks * 100 > horizon_months * 433
                               /\ t.phase # "quick_wins" )

\* Reached: a horizon of 3 months (12.99 weeks) and a positive governance
\* gap; the governance template of 12 weeks in phase scale is not among the
\* actions, the one of 8 weeks is.
C23_TwelveWeeksDropped ==
    /\ horizon_months = 3
    /\ "governance" \in PositiveGapDimensions(gap_argument)
    /\ \E a \in action_map :
          /\ a.outcome = "returned"
          /\ a.total_actions_count < initiative_cap
          /\ ~TemplateKept(a.actions, "governance",
                 [effort_weeks |-> 12, impact_score |-> 85, phase |-> "scale"])
          /\ TemplateKept(a.actions, "governance",
                 [effort_weeks |-> 8, impact_score |-> 85, phase |-> "foundation"])

\* C24: priority sequencing.  sequence_by_priority returns its input
\* actions, none lost or duplicated, ordered by phase rank (quick_wins <
\* foundation < scale < optimize), then impact_score descending, then
\* effort_weeks ascending.
C24_PrioritySequencing ==
    \A q \in sequenced :
        LET out == q.sequenced_actions
        IN  /\ Len(out) = Len(plan_actions)
            /\ \A i \in DOMAIN plan_actions :
                  Cardinality({ k \in DOMAIN out : out[k] = plan_actions[i] }) = 1
            /\ \A k \in 1 .. (Len(out) - 1) :
                  LET rank(a) == CHOOSE r \in DOMAIN PHASE_ORDER : PHASE_ORDER[r] = a.phase
                  IN  \/ rank(out[k]) < rank(out[k + 1])
                      \/ /\ rank(out[k]) = rank(out[k + 1])
                         /\ \/ out[k].impact_score > out[k + 1].impact_score
                            \/ /\ out[k].impact_score = out[k + 1].impact_score
                               /\ out[k].effort_weeks <= out[k + 1].effort_weeks

\* Reached: three actions handed in as (foundation, quick win of 4 weeks,
\* quick win of 3 weeks with the same impact) come out as the 3-week quick
\* win, the 4-week quick win, the foundation action.
C24_Witness ==
    /\ Len(plan_actions) = 3
    /\ plan_actions[1].phase = "foundation"
    /\ plan_actions[2].phase = "quick_wins" /\ plan_actions[2].effort_weeks = 4
    /\ plan_actions[3].phase = "quick_wins" /\ plan_actions[3].effort_weeks = 3
    /\ plan_actions[2].impact_score = plan_actions[3].impact_score
    /\ \E q \in sequenced :
          q.sequenced_actions = << plan_actions[3], plan_actions[2], plan_actions[1] >>

\* C27: no overlap within a stream.  In every timeline generate_timeline
\* returns for parallel_streams >= 1, every entry is on a stream in
\* 1..parallel_streams and ends after it starts, and of two entries on the
\* same stream the one scheduled later starts at or after the end_week of
\* the earlier one.
C27_NoOverlapWithinStream ==
    \A t \in timeline :
        (parallel_streams >= 1 /\ t.outcome = "returned") =>
            LET entries == t.timeline_entries
            IN  /\ \A k \in DOMAIN entries :
                      /\ entries[k].stream \in 1 .. parallel_streams
                      /\ entries[k].start_week < entries[k].end_week
                /\ \A i, j \in DOMAIN entries :
                      (i < j /\ entries[i].stream = entries[j].stream)
                          => entries[i].end_week <= entries[j].start_week

\* Reached: two streams, three entries; the third shares the stream of an
\* earlier entry and starts after that entry has ended, having waited for a
\* prerequisite dimension on the other stream.
C27_Witness ==
    /\ parallel_streams = 2
    /\ \E t \in timeline :
          /\ t.outcome = "returned"
          /\ Len(t.timeline_entries) = 3
          /\ \E i \in 1 .. 2 :
                /\ t.timeline_entries[i].stream = t.timeline_entries[3].stream
                /\ t.timeline_entries[i].end_week < t.timeline_entries[3].start_week

\* The sum of actions_completed_count over the first k checkpoints.
RECURSIVE CompletedCountUpTo(_, _)
CompletedCountUpTo(checkpoints, k) ==
    IF k = 0 THEN 0
    ELSE Len(checkpoints[k].actions_completed) + CompletedCountUpTo(checkpoints, k - 1)

\* C28: milestone counts are consistent.  For every checkpoint emitted by
\* define_milestones, cumulative_actions_completed equals the sum of
\* actions_completed_count over that checkpoint and all earlier ones.
C28_MilestoneCountsConsistent ==
    \A m \in milestones :
        \A k \in DOMAIN m.milestones :
            m.milestones[k].cumulative_actions_completed
                = CompletedCountUpTo(m.milestones, k)

\* Reached: an action ends exactly in week 8.  The checkpoint of week 8
\* counts it in cumulative_actions_completed (end_week <= 8) and lists no
\* completed action (end_week < 8 fails); the checkpoint of week 16 lists it.
C28_EndsOnCheckpointWeek ==
    \E t \in timeline : \E m \in milestones :
        /\ t.outcome = "returned"
        /\ Len(t.timeline_entries) = 1
        /\ t.timeline_entries[1].end_week = Weeks(8)
        /\ Len(m.milestones) >= 2
        /\ m.milestones[1].week = 8
        /\ m.milestones[1].actions_completed = << >>
        /\ m.milestones[1].cumulative_actions_completed = 1
        /\ m.milestones[2].actions_completed = << t.timeline_entries[1].action_id >>

\* The (from, to) pairs joined by a path of at most n edges.
RECURSIVE PathsWithin(_, _)
PathsWithin(edges, n) ==
    IF n <= 1 THEN edges
    ELSE LET shorter == PathsWithin(edges, n - 1)
         IN  shorter \cup { pe \in { <<p[1], e[2]>> : p \in shorter, e \in edges } :
                              \E p \in shorter : \E e \in edges :
                                  p[2] = e[1] /\ pe = <<p[1], e[2]>> }

\* The edges of a result of identify_dependencies as (from, to) pairs.
EdgePairs(result) ==
    { << result.dependencies[k].from_action_id, result.dependencies[k].to_action_id >> :
        k \in DOMAIN result.dependencies }

\* C25: dependency edges are acyclic.  For a list of actions with unique
\* ids the edges identify_dependencies returns, phase_sequence and
\* cross_dimension together, join ids of input actions only, and no action
\* is a direct or transitive prerequisite of itself.
C25_DependenciesAcyclic ==
    \A r \in dependency_result :
        LET ids == { dependency_actions[i].id : i \in DOMAIN dependency_actions }
            edges == EdgePairs(r)
        IN  /\ \A e \in edges : e[1] \in ids /\ e[2] \in ids
            /\ \A k \in DOMAIN r.dependencies :
                  r.dependencies[k].dependency_type \in {"phase_sequence", "cross_dimension"}
            /\ \A n \in ids : <<n, n>> \notin PathsWithin(edges, Cardinality(ids))

\* Reached: a data foundation action, a process action in phase scale and a
\* process quick win: the data action precedes the quick win (cross
\* dimension), the quick win precedes the scale action (phase sequence), so
\* the data action is a transitive prerequisite of the scale action.
C25_Witness ==
    /\ Len(dependency_actions) = 3
    /\ dependency_actions[1].dimension = "data"
    /\ \E r \in dependency_result :
          /\ EdgePairs(r) = { <<3, 2>>, <<1, 3>> }
          /\ <<1, 2>> \in PathsWithin(EdgePairs(r), 3)
          /\ \E k \in DOMAIN r.dependencies :
                r.dependencies[k].dependency_type = "phase_sequence"

\* The segment bounds of the two estimators, from 0 to 100, and the
\* percentile at the lower bound of each segment.
ComparatorBounds(q) == << 0, q.p25, q.p50, q.p75, q.p90, Pts(100) >>
ScorerBounds(q) == << 0, q.p25, q.p50, q.p75, Pts(100) >>
LowerPercentiles == << 0, 25, 50, 75, 90 >>

\* The degenerate segments (equal bounds) a score falls in.
DegenerateSegments(bounds, score) ==
    { i \in 1 .. (Len(bounds) - 1) : bounds[i] = bounds[i + 1] /\ score = bounds[i] }

\* The lowest member of a non-empty set of segments.
LowestSegment(segments) == CHOOSE i \in segments : \A j \in segments : i <= j

\* Both estimators have returned a value in 0..100, the comparator as a
\* quotient with a non-zero denominator.
PercentilesBounded ==
    /\ \A r \in comparator_percentile :
          r.den > 0 /\ 0 <= r.num /\ r.num <= 100 * r.den
    /\ \A r \in scorer_percentile : 0 <= r /\ r <= Pts(100)

\* C26 as stated: total and bounded for every combination of quantiles, and
\* a score falling in a degenerate segment gets that segment's lower
\* percentile, for every degenerate segment it falls in.
C26_AsStated ==
    /\ PercentilesBounded
    /\ \A i \in DegenerateSegments(ComparatorBounds(quantiles), ranked_score) :
          ComparatorRanks(LowerPercentiles[i])
    /\ \A i \in DegenerateSegments(ScorerBounds(quantiles), ranked_score) :
          ScorerRanks(LowerPercentiles[i])

\* C26: percentile interpolation is total and bounded.  For every score and
\* every combination of quantiles in 0..100, _interpolate_percentile and
\* compute_peer_percentile return a value in 0..100 without dividing by
\* zero; for non-decreasing quantiles a score falling in degenerate segments
\* gets the lower percentile of the LOWEST of them.
C26_TotalAndBounded ==
    /\ PercentilesBounded
    /\ NonDecreasing(quantiles) =>
          /\ DegenerateSegments(ComparatorBounds(quantiles), ranked_score) # {} =>
                ComparatorRanks(LowerPercentiles[
                    LowestSegment(DegenerateSegments(ComparatorBounds(quantiles),
                                                     ranked_score))])
          /\ DegenerateSegments(ScorerBounds(quantiles), ranked_score) # {} =>
                ScorerRanks(LowerPercentiles[
                    LowestSegment(DegenerateSegments(ScorerBounds(quantiles),
                                                     ranked_score))])

\* Reached: p25 = p50 = p75 = 40 below a p90 of 100 and a score of 40, which
\* falls in the degenerate segments from p25 to p50 and from p50 to p75;
\* both estimators have ranked it at 25.
C26_Witness ==
    /\ quantiles = [p25 |-> Pts(40), p50 |-> Pts(40), p75 |-> Pts(40), p90 |-> Pts(100)]
    /\ ranked_score = Pts(40)
    /\ comparator_percentile # {} /\ ComparatorRanks(25)
    /\ scorer_percentile # {} /\ ScorerRanks(25)

\* C29: report lifecycle.  Every report generate_report creates in status
\* generating has been given exactly one terminal status, ready or failed,
\* when the call has returned or raised, and a report that is ready is never
\* marked failed afterwards.
C29_ReportLifecycle ==
    /\ [](\A c \in DOMAIN report_calls :
            (report_calls[c].pc = "done" /\ report_calls[c].report_id # 0) =>
                /\ report_rows[report_calls[c].report_id].status \in {"ready", "failed"}
                /\ Len(report_rows[report_calls[c].report_id].marks) = 1)
    /\ [][\A r \in DOMAIN report_rows :
            report_rows[r].status = "ready" => report_rows'[r].status = "ready"]_vars

\* Reached: the benchmark lookup raised after the report row was created;
\* generate_report has raised and the row is still in status generating.
C29_LeftGenerating ==
    \E c \in DOMAIN report_calls :
        /\ report_calls[c].pc = "done"
        /\ report_calls[c].outcome = "raised"
        /\ report_calls[c].report_id # 0
        /\ report_rows[report_calls[c].report_id].status = "generating"
        /\ report_rows[report_calls[c].report_id].marks = << >>

\* C30: scoring is exclusive under concurrency.  Of two score_assessment
\* calls on the same in_progress assessment whose responses cover all five
\* dimensions, however they interleave, at most one persists scores through
\* update_scores and publishes a maturity.assessment.completed event; the
\* other ends in ConflictError and changes nothing.
C30_ScoringExclusive ==
    /\ update_scores_calls <= 1
    /\ Len(completed_events) <= 1
    /\ \A c, d \in DOMAIN score_calls :
          ( /\ c # d
            /\ score_calls[c].outcome = "returned"
            /\ score_calls[d].pc = "done"
            /\ score_calls[d].tenant_id = assessment_row.tenant_id )
          => score_calls[d].outcome = "ConflictError"

\* Reached: two calls of the owning tenant both read the row while it was
\* in_progress; both computed scores, both called update_scores and both
\* published the completed event.
C30_BothCallsPersist ==
    /\ \A c \in DOMAIN score_calls :
          /\ score_calls[c].tenant_id = assessment_row.tenant_id
          /\ ~score_calls[c].after_completion
          /\ score_calls[c].pc = "done"
          /\ score_calls[c].outcome = "returned"
    /\ VALID_DIMENSIONS \subseteq { stored_responses[k].dimension : k \in DOMAIN stored_responses }
    /\ engine_invocations = 2
    /\ update_scores_calls = 2
    /\ Len(completed_events) = 2
    /\ assessment_row.status = "completed"

====
